---------------------------- MODULE Spec2Model ----------------------------
(***************************************************************************)
(* Model of the 3D star field (VCnoC/Starry-sky): the StarField's          *)
(* adaptive star-count control, the renderer effect toggles it drives,     *)
(* the PerformanceMonitor that notifies it, and the StarFieldApp wiring    *)
(* that installs its own low-performance callback on the shared monitor.   *)
(*                                                                         *)
(* Times are integer milliseconds (performance.now()).  Star counts are    *)
(* integers; Math.floor(c * 0.25), Math.floor(c * 0.75) and                *)
(* Math.floor(c * 0.1) are computed on integers c with \div (0.25 and 0.75 *)
(* are exact doubles, and the double 0.1 is above 1/10 by less than        *)
(* 1e-17, so the floor of the product is c \div 10 for every c <= 5000).   *)
(* A star is a natural number naming the object; "new Star" yields a name  *)
(* larger than that of every star in the collection, so a new star is      *)
(* never confused with one the collection holds (names of dropped stars    *)
(* may be reused: nothing refers to a star outside the collection).        *)
(***************************************************************************)
EXTENDS Integers, Sequences, FiniteSets, TLC

VARIABLES
    now,                \* the clock (performance.now(), ms) at the latest frame handled
    frameGap,           \* host: time between the frames it currently delivers, ms
    stars,              \* StarField.stars: sequence of star identities
    starCount,          \* StarField.starCount
    originalStarCount,  \* StarField.originalStarCount
    autoOptimize,       \* performanceOptimizations.autoOptimize
    lastOptimization,   \* performanceOptimizations.lastOptimization
    lastRecovery,       \* performanceOptimizations.lastRecovery
    skipFrames,         \* renderingOptimizations.skipFrames
    enableGlow,         \* renderer.config.enableGlow
    enableTrails,       \* renderer.config.enableTrails
    onLowPerformance,   \* which callback the monitor holds for low performance
    isMobile,           \* StarFieldApp.isMobile
    frameCount,         \* PerformanceMonitor.frameCount
    fps,                \* PerformanceMonitor.fps
    lastFpsUpdate,      \* PerformanceMonitor.lastFpsUpdate
    fpsHistory,         \* PerformanceMonitor.fpsHistory
    lowFpsThreshold,    \* PerformanceMonitor.lowFpsThreshold
    op,                 \* the notification the latest step delivered, if any
    lowActs,            \* clocks of the (up to two) latest steps in which a
                        \* low-performance notification reduced the count or
                        \* the effects
    goodActs,           \* clocks of the (up to two) latest steps in which a
                        \* good-performance notification raised the count
    sceneStars,         \* the Star objects whose coordinates are tracked:
                        \* records x, y, z, prevX, prevY, speed
    starUpdates,        \* number of Star.update calls made so far
    rotationX,          \* Camera.rotationX, as an angle record (cos, sin)
    rotationY,          \* Camera.rotationY, as an angle record (cos, sin)
    canvasWidth,        \* canvas.width = Camera.canvasWidth
    canvasHeight,       \* canvas.height = Camera.canvasHeight
    isRunning,          \* StarField.isRunning
    colorScheme,        \* renderer.config.colorScheme
    isTransitioning,    \* renderer.colorTransition.isTransitioning
    startTime,          \* renderer.colorTransition.startTime
    fromScheme,         \* renderer.colorTransition.fromScheme
    toScheme,           \* renderer.colorTransition.toScheme
    progress,           \* renderer.colorTransition.progress
    lastColor,          \* the colour getStarColor returned in the latest step
    targetRotationX,    \* InputHandler.targetRotationX
    targetRotationY,    \* InputHandler.targetRotationY
    currentRotationX,   \* InputHandler.currentRotationX
    currentRotationY,   \* InputHandler.currentRotationY
    isMouseDown,        \* InputHandler.isMouseDown
    isTouchActive,      \* InputHandler.isTouchActive
    multiTouchActive,   \* InputHandler.multiTouchActive
    isUpdating,         \* InputHandler.isUpdating
    callbacks,          \* number of rotation callbacks delivered so far
    cameraRotation,     \* Camera.rotationX, rotationY as the rotation callback
                        \* last set them, in the InputHandler's units
    mouseRotation,      \* ConfigPanel.config.mouseRotation
    starCountIsNaN,     \* StarField.starCount is NaN (starCount then holds no value)
    starFieldSpeed,     \* StarField.speed: a number record, val in hundredths
    configStarCount,    \* ConfigPanel.config.starCount
    configSpeed,        \* ConfigPanel.config.speed, in hundredths
    isInitialized,      \* StarFieldApp.isInitialized
    appIsRunning,       \* StarFieldApp.isRunning
    errorShown,         \* StarFieldApp.showError has put up the error notice
    frameSkipCounter,   \* renderingOptimizations.frameSkipCounter
    lastTime,           \* StarField.lastTime
    lastMemoryCheck,    \* memoryManagement.lastMemoryCheck
    starFieldFps,       \* StarField.fps, the legacy counter getFPS returns
    tick,               \* what the latest StarField.update did
    batchStars,         \* the depth-sorted star data handed to the batching
    maxBatchSize,       \* renderer.config.maxBatchSize
    batches,            \* the batches groupStarsForBatching returned last
    configTrailEffect,  \* ConfigPanel.config.trailEffect
    rafQueue,           \* the callbacks requestAnimationFrame holds for the
                        \* next animation frame, in the order they were given
    rafDue,             \* the callbacks of the current animation frame that
                        \* have not run yet
    monitorUpdates,     \* PerformanceMonitor.update calls that the callbacks
                        \* of the current animation frame have made
    starts              \* number of start() calls that started a loop

sfVars   == <<stars, starCount, originalStarCount, autoOptimize,
              lastOptimization, lastRecovery, skipFrames>>
rdVars   == <<enableGlow, enableTrails>>
pmVars   == <<frameCount, fps, lastFpsUpdate, fpsHistory, lowFpsThreshold>>
appVars  == <<onLowPerformance, isMobile>>
actVars  == <<lowActs, goodActs>>
obsVars  == <<op, actVars>>
coreVars == <<now, frameGap, sfVars, rdVars, pmVars, appVars, actVars>>
camVars  == <<rotationX, rotationY, canvasWidth, canvasHeight>>
sceneVars == <<sceneStars, starUpdates, camVars>>
transVars == <<isTransitioning, startTime, fromScheme, toScheme, progress>>
renderVars == <<isRunning, colorScheme, transVars, lastColor>>
inputVars == <<targetRotationX, targetRotationY, currentRotationX,
               currentRotationY, isMouseDown, isTouchActive, multiTouchActive,
               isUpdating, callbacks, cameraRotation, mouseRotation>>
panelVars == <<starCountIsNaN, starFieldSpeed, configStarCount, configSpeed,
               isInitialized, appIsRunning, errorShown>>
tickVars == <<frameSkipCounter, lastTime, lastMemoryCheck, starFieldFps, tick>>
batchVars == <<batchStars, maxBatchSize, batches>>
hostVars == <<configTrailEffect, rafQueue, rafDue, monitorUpdates, starts>>
moreVars == <<panelVars, tickVars, batchVars, hostVars>>
extVars  == <<sceneVars, renderVars, inputVars, moreVars>>
vars     == <<now, frameGap, sfVars, rdVars, pmVars, appVars, obsVars,
              extVars>>

---------------------------------------------------------------------------
(* Bounds of the exploration *)
MaxTime     == 5000     \* Spec: no evaluation happens after this clock value
MaxTimeLong == 10000    \* SpecLong: no evaluation happens after this clock value
MaxTimeMonitor == 3100  \* SpecMonitor: no frame happens after this clock value
MaxTimeHistory == 62000 \* SpecHistory: no frame happens after this clock value
MaxStarUpdates == 2     \* SpecScene: number of Star.update calls
MaxTimeRender == 2500   \* SpecRender: no frame or call happens after this clock value
MaxCallbacks == 2       \* SpecInput: number of rotation callbacks delivered

(* Program constants *)
MaxStarCount         == 5000
MinStarCountArg      == 1
minStarCount         == 100
recoveryDelay        == 5000
optimizationInterval == 2000
effectsFpsLimit      == 20
recoveryFpsLimit     == 50
appMinStarCount      == 100
defaultLowFps        == 30
goodFpsMargin        == 10

fpsUpdateInterval    == 1000
maxFpsHistory        == 60

(* Inputs *)
InitialCounts == {1000}
CountInputs   == {-7, 0, 120, 950, 10000}
FpsInputs     == {19, 20, 35, 50, 51}
FrameGaps     == {1000}
FrameDts      == {20, 25, 34, 35, 60}
SlowFrameDts  == {500, 1000}

NoOp == [name |-> "-", arg |-> 0]

Max(a, b) == IF a >= b THEN a ELSE b
Min(a, b) == IF a <= b THEN a ELSE b

---------------------------------------------------------------------------
(* StarField.setStarCount *)

ClampStarCount_NoLowerBound(count) == Min(MaxStarCount, count)

\* const newCount = Math.max(1, Math.min(5000, Math.floor(count)))
ClampStarCount(count) == Max(MinStarCountArg, Min(MaxStarCount, count))

\* new Star(x, y, z): a name no star of the collection s has
NewStar(s) == IF s = <<>> THEN 1 ELSE s[Len(s)] + 1

RemoveExcess_KeepsTail(s, newCount) ==
    SubSeq(s, Len(s) - Min(newCount, Len(s)) + 1, Len(s))

\* this.stars.splice(newCount): keeps the elements before index newCount
RemoveExcess(s, newCount) == SubSeq(s, 1, Min(newCount, Len(s)))

\* for (i = oldCount; i < newCount; i++) this.stars.push(createRandomStar())
AddStars(s, oldCount, newCount) ==
    s \o [i \in 1..(newCount - oldCount) |-> NewStar(s) + i - 1]

setStarCount(count) ==
    LET newCount == ClampStarCount(count) IN
    IF newCount = starCount
    THEN UNCHANGED <<stars, starCount>>
    ELSE /\ starCount' = newCount
         /\ IF newCount > starCount
            THEN stars' = AddStars(stars, starCount, newCount)
            ELSE stars' = RemoveExcess(stars, newCount)

---------------------------------------------------------------------------
(* StarField.handleLowPerformance; t is performance.now() *)

\* if (now - lastOptimization < 2000) return
OptimizedTooRecently(t, last) == t - last < optimizationInterval

ReductionAmount_Half(c) == Max((c * 50) \div 100, 1)

\* reductionAmount = max(floor(currentCount * reductionStep), 1)
ReductionAmount(c) == Max((c * 25) \div 100, 1)

\* newCount = max(minCount, currentCount - reductionAmount)
ReducedCount(c) == Max(minStarCount, c - ReductionAmount(c))

ReduceEffects_AtMost20(f) == f <= effectsFpsLimit

\* if (data.fps < 20)
ReduceEffects(f) == f < effectsFpsLimit

handleLowPerformance(t, f) ==
    IF OptimizedTooRecently(t, lastOptimization)
    THEN UNCHANGED <<stars, starCount, rdVars, skipFrames, lastOptimization>>
    ELSE /\ IF starCount > minStarCount
            THEN setStarCount(ReducedCount(starCount))
            ELSE UNCHANGED <<stars, starCount>>
         /\ IF ReduceEffects(f)
            THEN /\ enableGlow' = FALSE
                 /\ enableTrails' = FALSE
                 /\ skipFrames' = 1
            ELSE UNCHANGED <<rdVars, skipFrames>>
         /\ lastOptimization' = t

---------------------------------------------------------------------------
(* StarField.handleGoodPerformance; t is performance.now() *)

RecoveredTooRecently_OneSecond(t, last) == t - last < 1000

\* if (now - lastRecovery < recoveryDelay) return
RecoveredTooRecently(t, last) == t - last < recoveryDelay

CanRecover_At50(c, orig, f) == c < orig /\ f >= recoveryFpsLimit

\* if (currentCount < originalCount && data.fps > 50)
CanRecover(c, orig, f) == c < orig /\ f > recoveryFpsLimit

RecoveryAmount_IgnoresGap(c, orig) == orig \div 10

\* recoveryAmount = min(floor(originalCount * 0.1), originalCount - currentCount)
RecoveryAmount(c, orig) == Min(orig \div 10, orig - c)

\* if (!this.renderer.getConfig().enableGlow)
EffectsWereDisabled(glow, trails) == ~glow

handleGoodPerformance(t, f) ==
    IF RecoveredTooRecently(t, lastRecovery)
    THEN UNCHANGED <<stars, starCount, rdVars, skipFrames, lastRecovery>>
    ELSE /\ IF CanRecover(starCount, originalStarCount, f)
            THEN /\ IF RecoveryAmount(starCount, originalStarCount) > 0
                    THEN setStarCount(starCount +
                             RecoveryAmount(starCount, originalStarCount))
                    ELSE UNCHANGED <<stars, starCount>>
                 /\ IF EffectsWereDisabled(enableGlow, enableTrails)
                    THEN /\ enableGlow' = TRUE
                         /\ enableTrails' = TRUE
                         /\ skipFrames' = 0
                    ELSE UNCHANGED <<rdVars, skipFrames>>
            ELSE UNCHANGED <<stars, starCount, rdVars, skipFrames>>
         /\ lastRecovery' = t

---------------------------------------------------------------------------
(* StarFieldApp.handleLowPerformance, installed by setupEventListeners *)

\* newStarCount = Math.max(100, Math.floor(currentStarCount * 0.75))
AppReducedCount(c) == Max(appMinStarCount, (c * 75) \div 100)

StarFieldApp_handleLowPerformance(f) ==
    /\ IF AppReducedCount(starCount) < starCount
       THEN setStarCount(AppReducedCount(starCount))
       ELSE UNCHANGED <<stars, starCount>>
    /\ IF isMobile
       THEN enableGlow' = FALSE      \* renderer.updateConfig({enableGlow: false, ...})
       ELSE UNCHANGED enableGlow
    /\ UNCHANGED <<enableTrails, skipFrames, lastOptimization>>

---------------------------------------------------------------------------
(* The callbacks the PerformanceMonitor holds *)

\* (data) => { if (autoOptimize) this.handleLowPerformance(data) }
StarField_onLowPerformance(t, f) ==
    IF autoOptimize
    THEN handleLowPerformance(t, f)
    ELSE UNCHANGED <<stars, starCount, rdVars, skipFrames, lastOptimization>>

\* (data) => { if (autoOptimize) this.handleGoodPerformance(data) }
StarField_onGoodPerformance(t, f) ==
    IF autoOptimize
    THEN handleGoodPerformance(t, f)
    ELSE UNCHANGED <<stars, starCount, rdVars, skipFrames, lastRecovery>>

\* The callback currently stored in PerformanceMonitor.onLowPerformance
CallOnLowPerformance(t, f) ==
    IF onLowPerformance = "StarField"
    THEN StarField_onLowPerformance(t, f)
    ELSE StarFieldApp_handleLowPerformance(f)

---------------------------------------------------------------------------
(* PerformanceMonitor.getAverageFPS *)

RECURSIVE SumSeq(_)
\* this.fpsHistory.reduce((a, b) => a + b, 0)
SumSeq(h) == IF h = <<>> THEN 0 ELSE Head(h) + SumSeq(Tail(h))

\* Math.round(sum / n) for sum >= 0, n > 0: the nearest integer, halves up
RoundDiv(sum, n) == (2 * sum + n) \div (2 * n)

getAverageFPS_Floor(h, f) ==
    IF Len(h) = 0 THEN f ELSE SumSeq(h) \div Len(h)

getAverageFPS(h, f) ==
    IF Len(h) = 0 THEN f ELSE RoundDiv(SumSeq(h), Len(h))

\* this.fpsHistory.push(this.fps); if (length > maxFpsHistory) shift()
PushFps_DropsNewest(h, f) ==
    IF Len(h) + 1 > maxFpsHistory THEN h ELSE Append(h, f)

PushFps(h, f) ==
    IF Len(h) + 1 > maxFpsHistory THEN Tail(Append(h, f)) ELSE Append(h, f)

---------------------------------------------------------------------------
(* PerformanceMonitor.checkPerformanceThresholds, for an average avgFps *)

\* if (avgFps < this.lowFpsThreshold)
IsLowFps(avgFps, threshold)  == avgFps < threshold

\* else if (avgFps > this.lowFpsThreshold + 10)
IsGoodFps(avgFps, threshold) == avgFps > threshold + goodFpsMargin

\* Which callback an evaluation with average avgFps invokes
Notification(avgFps) ==
    IF IsLowFps(avgFps, lowFpsThreshold) THEN "low"
    ELSE IF IsGoodFps(avgFps, lowFpsThreshold) THEN "good"
    ELSE "none"

checkPerformanceThresholds(t, avgFps) ==
    IF IsLowFps(avgFps, lowFpsThreshold)
    THEN /\ CallOnLowPerformance(t, avgFps)
         /\ UNCHANGED lastRecovery
    ELSE IF IsGoodFps(avgFps, lowFpsThreshold)
    THEN /\ StarField_onGoodPerformance(t, avgFps)
         /\ UNCHANGED lastOptimization
    ELSE UNCHANGED <<stars, starCount, rdVars, skipFrames,
                     lastOptimization, lastRecovery>>

\* The step reduced the star count or switched an effect setting
Reduced ==
    \/ starCount' < starCount
    \/ <<enableGlow, enableTrails, skipFrames>>' #
           <<enableGlow, enableTrails, skipFrames>>

\* The (up to two) latest clocks of acts, after an act at clock t
LatestTwo(acts, t) ==
    IF acts = <<>> THEN <<t>> ELSE <<acts[Len(acts)], t>>

\* What the step observes of the notification it delivered at clock t
Observe(t, avgFps) ==
    /\ op' = [name |-> Notification(avgFps), arg |-> avgFps]
    /\ lowActs' =
          IF Notification(avgFps) = "low" /\ Reduced
          THEN LatestTwo(lowActs, t) ELSE lowActs
    /\ goodActs' =
          IF Notification(avgFps) = "good" /\ starCount' > starCount
          THEN LatestTwo(goodActs, t) ELSE goodActs

---------------------------------------------------------------------------
(* Star (part_002).  Coordinates are whole world units; star.speed is in    *)
(* tenths, the base speed in tenths, deltaTime in milliseconds.  The inputs *)
(* are chosen so that every decrement is a whole number of units.           *)

minDistance == 1
maxDistance == 1000
resetRange  == 500

Null == [null |-> TRUE]

\* new Star(x, y, z), with the random speed sp
Star(x, y, z, sp) ==
    [x |-> x, y |-> y, z |-> z, prevX |-> x, prevY |-> y, speed |-> sp]

\* speed * this.speed * deltaTime * 60
StarDecrement(speed, sp, dt) == (speed * sp * dt * 60) \div 100000

ReachedViewer_Strict(z) == z < minDistance

\* if (this.z <= this.minDistance)
ReachedViewer(z) == z <= minDistance

\* Star.reset(), with the random coordinates rx, ry and random speed rsp
Star_reset(s, rx, ry, rsp) ==
    [x |-> rx, y |-> ry, z |-> maxDistance,
     prevX |-> rx, prevY |-> ry, speed |-> rsp]

\* Star.update(speed, deltaTime)
Star_update(s, speed, dt, rx, ry, rsp) ==
    LET moved == [s EXCEPT !.prevX = s.x, !.prevY = s.y,
                           !.z = s.z - StarDecrement(speed, s.speed, dt)]
    IN  IF ReachedViewer(moved.z) THEN Star_reset(moved, rx, ry, rsp)
        ELSE moved

\* Star.isVisible()
isVisible(s) == s.z >= minDistance /\ s.z <= maxDistance

\* Brightness and size are fractions: brightness in units of
\* 1 / (maxDistance - minDistance)
BrightnessScale == maxDistance - minDistance

getBrightness_Unclamped(s) == BrightnessScale - (s.z - minDistance)

\* Star.getBrightness(): max(0, min(1, 1 - normalizedDistance))
getBrightness(s) ==
    Max(0, Min(BrightnessScale, BrightnessScale - (s.z - minDistance)))

\* Star.getSize(baseSize = 2): max(0.5, 2 * brightness), in units of
\* 1 / (2 * BrightnessScale)
getSize(s) == Max(BrightnessScale, 4 * getBrightness(s))

---------------------------------------------------------------------------
(* Camera (part_001).  An angle is the pair of its cosine and sine over     *)
(* TrigScale; a projected coordinate is a fraction in lowest terms.         *)

TrigScale == 5
Angle(c, s) == [cos |-> c, sin |-> s]
ZeroAngle == Angle(5, 0)
Angles    == {Angle(5, 0), Angle(3, 4), Angle(-5, 0)}

RECURSIVE GCD(_, _)
GCD(a, b) == IF b = 0 THEN a ELSE GCD(b, a % b)

Abs(a) == IF a < 0 THEN -a ELSE a

\* The fraction n / d (d > 0) in lowest terms
Frac(n, d) ==
    LET g == GCD(Abs(n), d) IN [n |-> n \div g, d |-> d \div g]

\* this.canvasHeight / (2 * Math.tan((this.fov * Math.PI / 180) / 2)) for
\* fov = 75, to the nearest unit: 1 / (2 tan 37.5 deg) = 0.6516
focalPerHeight == 6516
focalScale     == 10000
FocalLength(h) == (h * focalPerHeight + focalScale \div 2) \div focalScale
focalLength    == FocalLength(canvasHeight)

\* Camera.applyRotation(x, y, z); the result is scaled by TrigScale^2
applyRotation(x, y, z) ==
    LET rotatedX == x * rotationY.cos - z * rotationY.sin
        rotatedZ == x * rotationY.sin + z * rotationY.cos
        finalY   == TrigScale * y * rotationX.cos - rotatedZ * rotationX.sin
        finalZ   == TrigScale * y * rotationX.sin + rotatedZ * rotationX.cos
    IN  [x |-> TrigScale * rotatedX, y |-> finalY, z |-> finalZ]

BehindCamera_Strict(z) == z < 0

\* if (z <= 0)
BehindCamera(z) == z <= 0

\* if (rotatedPoint.z <= 0)
BehindAfterRotation(rotatedZ) == rotatedZ <= 0

\* Camera.project3DTo2D(x, y, z)
project3DTo2D(x, y, z) ==
    IF BehindCamera(z) THEN Null
    ELSE LET p == applyRotation(x, y, z) IN
         IF BehindAfterRotation(p.z) THEN Null
         ELSE [x |-> Frac(2 * p.x * focalLength + canvasWidth * p.z, 2 * p.z),
               y |-> Frac(2 * p.y * focalLength + canvasHeight * p.z, 2 * p.z),
               z |-> Frac(p.z, TrigScale * TrigScale)]

\* Star.getScreenPosition(camera)
getScreenPosition(s) ==
    IF s.z <= 0 THEN Null ELSE project3DTo2D(s.x, s.y, s.z)

---------------------------------------------------------------------------
(* StarField.getVisibleStars (part_003) *)

cameraNearTenths == 1      \* new Camera(75, aspect, 0.1, 1000): near, in tenths
cameraFar        == 1000
frustumMargin    == 100
screenMargin     == 50
frustumDepth     == 1000   \* const scale = 1000 / (star.z + 1)

\* StarField.isStarInFrustum(star, calculateFrustumBounds()): the bounds
\* are -+(canvas.width / 2 + 100) and -+(canvas.height / 2 + 100)
isStarInFrustum(s) ==
    /\ ~(10 * s.z < cameraNearTenths \/ s.z > cameraFar)
    /\ 2 * frustumDepth * s.x >= -(canvasWidth + 2 * frustumMargin) * (s.z + 1)
    /\ 2 * frustumDepth * s.x <= (canvasWidth + 2 * frustumMargin) * (s.z + 1)
    /\ 2 * frustumDepth * s.y >= -(canvasHeight + 2 * frustumMargin) * (s.z + 1)
    /\ 2 * frustumDepth * s.y <= (canvasHeight + 2 * frustumMargin) * (s.z + 1)

InScreenBounds_IgnoresY(pos) ==
    /\ pos # Null
    /\ pos.x.n >= -screenMargin * pos.x.d
    /\ pos.x.n <= (canvasWidth + screenMargin) * pos.x.d

\* screenPos && screenPos.x >= -50 && screenPos.x <= width + 50 && ...
InScreenBounds(pos) ==
    /\ pos # Null
    /\ pos.x.n >= -screenMargin * pos.x.d
    /\ pos.x.n <= (canvasWidth + screenMargin) * pos.x.d
    /\ pos.y.n >= -screenMargin * pos.y.d
    /\ pos.y.n <= (canvasHeight + screenMargin) * pos.y.d

\* Whether getVisibleStars emits a record for the star s
Emitted(s) ==
    /\ isVisible(s)
    /\ isStarInFrustum(s)
    /\ InScreenBounds(getScreenPosition(s))

\* Whether getVisibleStars emits a record for the star s after
\* setFrustumCulling(false): the frustum test is not made
EmittedUnculled(s) ==
    /\ isVisible(s)
    /\ InScreenBounds(getScreenPosition(s))

RECURSIVE VisibleFrom(_)
\* The records getVisibleStars pushes for the stars i, i+1, ...
VisibleFrom(i) ==
    IF i > Len(sceneStars) THEN <<>>
    ELSE LET s == sceneStars[i] IN
         (IF Emitted(s)
          THEN <<[star |-> s, screenPos |-> getScreenPosition(s),
                  brightness |-> getBrightness(s), size |-> getSize(s)]>>
          ELSE <<>>) \o VisibleFrom(i + 1)

getVisibleStars == VisibleFrom(1)

---------------------------------------------------------------------------
(* Renderer: colour schemes and the scheme transition (renderer.js).        *)
(* colorTransition.progress is kept in units of 1 / ProgressScale; the      *)
(* clocks of this part are multiples of duration / ProgressScale.           *)

StaticSchemes  == {"white", "blue-white", "warm", "cool"}
DynamicSchemes == {"rainbow", "nebula"}
NoScheme       == "null"
NoColor        == <<>>

transitionDuration == 1000
ProgressScale      == 20
minBrightness      == 30
maxChannel         == 255

\* this.colorSchemes[name], as <<r, g, b>>
SchemeRGB(name) ==
    CASE name = "blue-white" -> <<200, 220, 255>>
      [] name = "warm"       -> <<255, 220, 180>>
      [] name = "cool"       -> <<180, 200, 255>>
      [] OTHER               -> <<255, 255, 255>>

KnownScheme_Any(name) == TRUE

\* this.colorSchemes.hasOwnProperty(scheme)
KnownScheme(name) == name \in StaticSchemes \cup DynamicSchemes

\* Renderer.getSchemeColor(name) and the base colour of getStarColor, for
\* a static scheme (unknown names fall back to white); the colours of the
\* dynamic schemes depend on the star and are not computed here
getSchemeColor(name) == SchemeRGB(name)

\* Renderer.easeInOutCubic(t) for t = p / ProgressScale, as a fraction n / d
easeInOutCubic(p) ==
    IF 2 * p < ProgressScale
    THEN [n |-> 8 * p * p * p,
          d |-> 2 * ProgressScale * ProgressScale * ProgressScale]
    ELSE [n |-> 2 * ProgressScale * ProgressScale * ProgressScale
                - (2 * ProgressScale - 2 * p) * (2 * ProgressScale - 2 * p)
                  * (2 * ProgressScale - 2 * p),
          d |-> 2 * ProgressScale * ProgressScale * ProgressScale]

\* Math.round(c1 + (c2 - c1) * eased)
BlendChannel(c1, c2, e) ==
    (2 * (c1 * e.d + (c2 - c1) * e.n) + e.d) \div (2 * e.d)

\* Renderer.blendColors(color1, color2, progress)
blendColors(color1, color2, p) ==
    [i \in 1..3 |-> BlendChannel(color1[i], color2[i], easeInOutCubic(p))]

\* One channel of applyBrightnessAndContrast, brightness b in tenths
ShadeChannel(c, b) ==
    LET lit == Max(minBrightness, (c * b) \div 10)
    IN  IF b < 3 THEN Min(maxChannel, (lit * 12) \div 10) ELSE lit

\* Renderer.applyBrightnessAndContrast(baseColor, brightness)
applyBrightnessAndContrast(color, b) ==
    [i \in 1..3 |-> ShadeChannel(color[i], b)]

\* Math.min(elapsed / duration, 1)
TransitionProgress(t, start) ==
    Min(((t - start) * ProgressScale) \div transitionDuration, ProgressScale)

TransitionComplete_Never(p) == FALSE

\* if (this.colorTransition.progress >= 1)
TransitionComplete(p) == p >= ProgressScale

\* Renderer.updateColorTransition(currentTime)
updateColorTransition(t) ==
    IF ~isTransitioning
    THEN UNCHANGED <<isTransitioning, fromScheme, toScheme, progress>>
    ELSE /\ progress' = TransitionProgress(t, startTime)
         /\ IF TransitionComplete(progress')
            THEN /\ isTransitioning' = FALSE
                 /\ fromScheme' = NoScheme
                 /\ toScheme' = NoScheme
            ELSE UNCHANGED <<isTransitioning, fromScheme, toScheme>>

\* Renderer.getStarColor(star, brightness, currentTime): the colour returned
getStarColor(t, b) ==
    /\ updateColorTransition(t)
    /\ lastColor' =
          applyBrightnessAndContrast(
              IF isTransitioning'
              THEN blendColors(getSchemeColor(fromScheme),
                               getSchemeColor(colorScheme), progress')
              ELSE getSchemeColor(colorScheme), b)

\* Renderer.render(visibleStars, currentTime): every star drawn takes its
\* colour from getStarColor at the same timestamp
render(t, drawn, b) ==
    /\ IF drawn THEN getStarColor(t, b)
       ELSE /\ lastColor' = NoColor
            /\ UNCHANGED <<isTransitioning, fromScheme, toScheme, progress>>
    /\ UNCHANGED <<colorScheme, startTime>>

\* Renderer.setColorScheme(scheme), called when the clock is t
setColorScheme(scheme, t) ==
    IF ~KnownScheme(scheme) \/ scheme = colorScheme
    THEN UNCHANGED <<colorScheme, transVars>>
    ELSE /\ IF ~isTransitioning
            THEN /\ isTransitioning' = TRUE
                 /\ startTime' = t
                 /\ fromScheme' = colorScheme
                 /\ toScheme' = scheme
                 /\ progress' = 0
            ELSE UNCHANGED transVars
         /\ colorScheme' = scheme

---------------------------------------------------------------------------
(* InputHandler (inputhandler.js).  Angles are in units of pi / 6000, so    *)
(* PI is a whole number; pointer movements are counted in steps of pi / 6   *)
(* pixels, so that a movement of n steps turns the target by                *)
(* n * sensitivity units (0.003 rad per pixel) for the mouse and by         *)
(* n * touchSensitivity units (0.002 rad per pixel) for a touch.            *)

PI               == 6000
sensitivity      == 3
touchSensitivity == 2
maxRotation      == PI \div 2
smoothingTenths  == 1       \* this.smoothing = 0.1

ClampRotationX_Unbounded(rx) == rx

\* Math.max(-this.maxRotation, Math.min(this.maxRotation, targetRotationX))
ClampRotationX(rx) == Max(-maxRotation, Min(maxRotation, rx))

RECURSIVE NormalizeDown(_)
\* while (this.targetRotationY > Math.PI) this.targetRotationY -= 2 * Math.PI
NormalizeDown(ry) == IF ry > PI THEN NormalizeDown(ry - 2 * PI) ELSE ry

RECURSIVE NormalizeUp(_)
\* while (this.targetRotationY < -Math.PI) this.targetRotationY += 2 * Math.PI
NormalizeUp(ry) == IF ry < -PI THEN NormalizeUp(ry + 2 * PI) ELSE ry

NormalizeRotationY_Unbounded(ry) == ry

NormalizeRotationY(ry) == NormalizeUp(NormalizeDown(ry))

\* targetRotationY += deltaX * s; targetRotationX += deltaY * s (invertY is
\* false); this.applyRotationBounds()
TurnTarget(deltaX, deltaY, s) ==
    /\ targetRotationY' = NormalizeRotationY(targetRotationY + deltaX * s)
    /\ targetRotationX' = ClampRotationX(targetRotationX + deltaY * s)

handleMouseMove_Always(deltaX, deltaY) ==
    TurnTarget(deltaX, deltaY, sensitivity)

\* InputHandler.handleMouseMove(event), the pointer having moved by
\* (deltaX, deltaY) since the previous mouse event
handleMouseMove(deltaX, deltaY) ==
    IF isMouseDown THEN TurnTarget(deltaX, deltaY, sensitivity)
    ELSE UNCHANGED <<targetRotationX, targetRotationY>>

\* InputHandler.handleTouchStart(event) with n = event.touches.length
handleTouchStart(n) ==
    /\ isTouchActive' = (n = 1)
    /\ multiTouchActive' = (n > 1)

\* InputHandler.handleTouchMove(event) with n = event.touches.length
handleTouchMove(n, deltaX, deltaY) ==
    IF n = 1 /\ isTouchActive /\ ~multiTouchActive
    THEN TurnTarget(deltaX, deltaY, touchSensitivity)
    ELSE UNCHANGED <<targetRotationX, targetRotationY>>

\* InputHandler.handleTouchEnd(event) with n = event.touches.length
handleTouchEnd(n) ==
    IF n = 0
    THEN /\ isTouchActive' = FALSE
         /\ multiTouchActive' = FALSE
    ELSE IF n = 1 /\ multiTouchActive
    THEN /\ multiTouchActive' = FALSE
         /\ isTouchActive' = TRUE
    ELSE UNCHANGED <<isTouchActive, multiTouchActive>>

\* delta * this.smoothing, to a whole unit
Smoothed(delta) == (delta * smoothingTenths) \div 10

LoopStopped_Never(updating) == FALSE

\* if (!this.isUpdating) return
LoopStopped(updating) == ~updating

\* InputHandler.update(), with the value isUpdating has when it runs
update(updating) ==
    IF LoopStopped(updating)
    THEN UNCHANGED <<currentRotationX, currentRotationY, callbacks,
                     cameraRotation>>
    ELSE /\ currentRotationX' =
              currentRotationX + Smoothed(targetRotationX - currentRotationX)
         /\ currentRotationY' =
              currentRotationY + Smoothed(targetRotationY - currentRotationY)
         \* this.rotationCallback(currentRotationX, currentRotationY) ->
         \* StarField.setRotation -> Camera.setRotation
         /\ cameraRotation' = <<currentRotationX', currentRotationY'>>
         /\ callbacks' = callbacks + 1

---------------------------------------------------------------------------
(* Specification Spec: the StarField driven through its public operations  *)
(* and by the monitor's once-per-second evaluations.  The frames between   *)
(* two evaluations only count frames, so Spec takes the average the        *)
(* monitor computes as an input of the evaluation; SpecMonitor below       *)
(* computes it from the frames.                                            *)

\* The state after new StarField(canvas, c), without the stars' coordinates
InitCore ==
    /\ now = 0
    /\ frameGap = 0
    /\ \E c \in InitialCounts :
          /\ starCount = c
          /\ originalStarCount = c
          /\ stars = [i \in 1..c |-> i]
    /\ autoOptimize = TRUE
    /\ lastOptimization = 0
    /\ lastRecovery = 0
    /\ skipFrames = 0
    /\ enableGlow = TRUE
    /\ enableTrails = TRUE
    /\ onLowPerformance = "StarField"
    /\ isMobile = FALSE
    /\ frameCount = 0
    /\ fps = 0
    /\ lastFpsUpdate = 0
    /\ fpsHistory = <<>>
    /\ lowFpsThreshold = defaultLowFps
    /\ op = NoOp
    /\ lowActs = <<>>
    /\ goodActs = <<>>

defaultWidth  == 800
defaultHeight == 600

\* new Camera(...): no rotation, the canvas' size
CameraInit ==
    /\ rotationX = ZeroAngle
    /\ rotationY = ZeroAngle
    /\ canvasWidth = defaultWidth
    /\ canvasHeight = defaultHeight

\* new Renderer(canvas), and the loop not started
RendererInit ==
    /\ isRunning = FALSE
    /\ colorScheme = "white"
    /\ isTransitioning = FALSE
    /\ startTime = 0
    /\ fromScheme = NoScheme
    /\ toScheme = NoScheme
    /\ progress = 0
    /\ lastColor = NoColor

\* new InputHandler(canvas, callback): the constructor starts the update
\* loop, whose first update delivers the rotation (0, 0)
InputInit ==
    /\ targetRotationX = 0
    /\ targetRotationY = 0
    /\ currentRotationX = 0
    /\ currentRotationY = 0
    /\ isMouseDown = FALSE
    /\ isTouchActive = FALSE
    /\ multiTouchActive = FALSE
    /\ isUpdating = TRUE
    /\ callbacks = 1
    /\ cameraRotation = <<0, 0>>
    /\ mouseRotation = TRUE

\* A number value of the program: NaN, or the number val
NaN == [nan |-> TRUE, val |-> 0]
Num(v) == [nan |-> FALSE, val |-> v]

defaultSpeed == 100
defaultConfigStarCount == 1000

\* The StarField's speed, the ConfigPanel's config and the StarFieldApp's
\* flags as their constructors set them
PanelInit ==
    /\ starCountIsNaN = FALSE
    /\ starFieldSpeed = Num(defaultSpeed)
    /\ configStarCount = defaultConfigStarCount
    /\ configSpeed = defaultSpeed
    /\ isInitialized = FALSE
    /\ appIsRunning = FALSE
    /\ errorShown = FALSE

NoTick == [skipped |-> FALSE, skipFrames |-> 0, reset |-> FALSE, dt |-> 0]

\* The StarField's frame bookkeeping as its constructor sets it
TickInit ==
    /\ frameSkipCounter = 0
    /\ lastTime = 0
    /\ lastMemoryCheck = 0
    /\ starFieldFps = 0
    /\ tick = NoTick

defaultMaxBatchSize == 100

\* new Renderer(canvas): nothing batched yet
BatchInit ==
    /\ batchStars = <<>>
    /\ maxBatchSize = defaultMaxBatchSize
    /\ batches = <<>>

defaultTrailEffect == TRUE

\* The ConfigPanel's trail setting as its constructor sets it; no animation
\* frame has been requested yet
HostInit ==
    /\ configTrailEffect = defaultTrailEffect
    /\ rafQueue = <<>>
    /\ rafDue = <<>>
    /\ monitorUpdates = 0
    /\ starts = 0

\* Only SpecScene and SpecTick track the stars' coordinates
Init ==
    /\ InitCore
    /\ sceneStars = <<>>
    /\ starUpdates = 0
    /\ CameraInit
    /\ RendererInit
    /\ InputInit
    /\ PanelInit
    /\ TickInit
    /\ BatchInit
    /\ HostInit

\* PerformanceMonitor.update on a frame at least one second after the
\* previous evaluation: the thresholds are checked with average f
EvaluationFrame(dt, f, horizon) ==
    LET t == now + dt IN
    /\ t <= horizon
    /\ t - lastFpsUpdate >= fpsUpdateInterval
    /\ now' = t
    /\ lastFpsUpdate' = t
    /\ checkPerformanceThresholds(t, f)
    /\ Observe(t, f)
    /\ UNCHANGED <<frameGap, originalStarCount, autoOptimize, frameCount, fps,
                   fpsHistory, lowFpsThreshold, appVars>>
    /\ UNCHANGED extVars

\* A caller invokes StarField.setStarCount(n)
SetStarCount(n) ==
    /\ setStarCount(n)
    /\ op' = [name |-> "setStarCount", arg |-> n]
    /\ UNCHANGED <<now, frameGap, originalStarCount, autoOptimize, lastOptimization,
                   lastRecovery, skipFrames, rdVars, pmVars, appVars,
                   actVars>>
    /\ UNCHANGED extVars

\* StarField.setGlowEnabled(b)
SetGlowEnabled(b) ==
    /\ enableGlow' = b
    /\ op' = NoOp
    /\ UNCHANGED <<now, frameGap, sfVars, enableTrails, pmVars, appVars,
                   actVars>>
    /\ UNCHANGED extVars

\* StarField.setTrailsEnabled(b)
SetTrailsEnabled(b) ==
    /\ enableTrails' = b
    /\ op' = NoOp
    /\ UNCHANGED <<now, frameGap, sfVars, enableGlow, pmVars, appVars,
                   actVars>>
    /\ UNCHANGED extVars

\* StarField.setAutoOptimization(b)
SetAutoOptimization(b) ==
    /\ autoOptimize' = b
    /\ op' = NoOp
    /\ UNCHANGED <<now, frameGap, stars, starCount, originalStarCount, lastOptimization,
                   lastRecovery, skipFrames, rdVars, pmVars, appVars,
                   actVars>>
    /\ UNCHANGED extVars

\* StarFieldApp.setupEventListeners: replaces the monitor's low-performance callback
SetupEventListeners ==
    /\ now = 0                      \* initialize() runs before the first frame
    /\ onLowPerformance = "StarField"
    /\ onLowPerformance' = "StarFieldApp"
    /\ op' = NoOp
    /\ UNCHANGED <<now, frameGap, sfVars, rdVars, pmVars, isMobile, actVars>>
    /\ UNCHANGED extVars

Next ==
    \/ \E dt \in FrameGaps, f \in FpsInputs : EvaluationFrame(dt, f, MaxTime)
    \/ \E n \in CountInputs : SetStarCount(n)
    \/ \E b \in BOOLEAN : SetGlowEnabled(b)
    \/ \E b \in BOOLEAN : SetTrailsEnabled(b)
    \/ \E b \in BOOLEAN : SetAutoOptimization(b)
    \/ SetupEventListeners

Spec == Init /\ [][Next]_vars

(* Specification SpecLong: the monitor's evaluations alone, over a horizon  *)
(* of two recovery delays.                                                  *)
NextLong ==
    \/ \E dt \in FrameGaps, f \in FpsInputs : EvaluationFrame(dt, f, MaxTimeLong)
    \/ SetupEventListeners

SpecLong == Init /\ [][NextLong]_vars

(* Specification SpecMonitor: every animation frame calls                   *)
(* PerformanceMonitor.update(currentTime).  The host delivers frames        *)
(* frameGap apart and may change that rate after an evaluation.             *)

\* PerformanceMonitor.update(t) when this.frameCount is count
PerformanceMonitor_updateFrom(count, t) ==
    /\ IF t - lastFpsUpdate >= fpsUpdateInterval
       THEN /\ fps' = count + 1
            /\ frameCount' = 0
            /\ lastFpsUpdate' = t
            /\ fpsHistory' = PushFps(fpsHistory, fps')
            /\ checkPerformanceThresholds(t, getAverageFPS(fpsHistory', fps'))
            /\ Observe(t, getAverageFPS(fpsHistory', fps'))
       ELSE /\ frameCount' = count + 1
            /\ op' = NoOp
            /\ UNCHANGED <<fps, lastFpsUpdate, fpsHistory, stars, starCount,
                           rdVars, skipFrames, lastOptimization, lastRecovery,
                           actVars>>
    /\ UNCHANGED <<originalStarCount, autoOptimize, lowFpsThreshold, appVars>>

\* PerformanceMonitor.update(now + dt), for frames up to the clock horizon
PerformanceMonitor_update(dt, horizon) ==
    LET t == now + dt IN
    /\ frameCount = 0 \/ dt = frameGap
    /\ t <= horizon
    /\ now' = t
    /\ frameGap' = dt
    /\ PerformanceMonitor_updateFrom(frameCount, t)

MonitorUpdate(dt) ==
    /\ PerformanceMonitor_update(dt, MaxTimeMonitor)
    /\ UNCHANGED extVars

NextMonitor ==
    \/ \E dt \in FrameDts : MonitorUpdate(dt)
    \/ SetupEventListeners

SpecMonitor == Init /\ [][NextMonitor]_vars

---------------------------------------------------------------------------
(* Specification SpecHistory: a slow host (one or two frames a second) runs *)
(* for more than maxFpsHistory seconds, so the history fills and evicts.    *)
(* The host changes its frame rate only while every reading the history     *)
(* holds is the same.                                                       *)

\* Every reading in the history h is the same
Steady(h) == \A i \in 1..Len(h) : h[i] = h[1]

HistoryUpdate(dt) ==
    /\ Steady(fpsHistory) \/ dt = frameGap
    /\ PerformanceMonitor_update(dt, MaxTimeHistory)
    /\ UNCHANGED extVars

NextHistory == \E dt \in SlowFrameDts : HistoryUpdate(dt)

SpecHistory == Init /\ [][NextHistory]_vars

---------------------------------------------------------------------------
(* Specification SpecScene: a field of NumSceneStars stars whose            *)
(* coordinates are tracked, moved by Star.update and seen through a camera  *)
(* that is rotated and resized.                                             *)

NumSceneStars == 2
SceneZs       == {0, 1, 31, 500, 1000, 1200}
SceneXYs      == <<<<0, 0>>, <<300, -200>>>>   \* x, y of the i-th star
ResetXYs      == {<<-resetRange, resetRange - 1>>}
StarSpeeds    == {5, 9}
BaseSpeeds    == {10, 50}
DeltaTimes    == {0, 1000}
CanvasSizes   == {<<800, 600>>, <<320, 240>>}
ProbePoints   == {<<0, 0, -5>>, <<40, -30, 0>>, <<100, -50, 200>>}

\* The stars the i-th star is drawn from
StarInputs(i) == {Star(SceneXYs[i][1], SceneXYs[i][2], z, 5) : z \in SceneZs}

InitScene ==
    /\ InitCore
    /\ sceneStars \in [1..NumSceneStars -> UNION {StarInputs(i) : i \in 1..NumSceneStars}]
    /\ \A i \in 1..NumSceneStars : sceneStars[i] \in StarInputs(i)
    /\ starUpdates = 0
    /\ CameraInit
    /\ RendererInit
    /\ InputInit
    /\ PanelInit
    /\ TickInit
    /\ BatchInit
    /\ HostInit

\* sceneStars[i].update(speed, deltaTime)
StarUpdate(i, speed, dt) ==
    /\ starUpdates < MaxStarUpdates
    /\ starUpdates' = starUpdates + 1
    /\ \E xy \in ResetXYs, rsp \in StarSpeeds :
          sceneStars' = [sceneStars EXCEPT
                            ![i] = Star_update(@, speed, dt, xy[1], xy[2], rsp)]
    /\ op' = [name |-> "Star.update",
              arg |-> [star |-> i, speed |-> speed, dt |-> dt]]
    /\ UNCHANGED <<coreVars, camVars, renderVars, inputVars, moreVars>>

\* StarField.setRotation(rotX, rotY) -> Camera.setRotation
SetRotation(rotX, rotY) ==
    /\ rotationX' = rotX
    /\ rotationY' = rotY
    /\ op' = NoOp
    /\ UNCHANGED <<coreVars, sceneStars, starUpdates, canvasWidth, canvasHeight,
                   renderVars, inputVars, moreVars>>

\* StarField.resize(width, height) -> Camera.updateAspectRatio
Resize(width, height) ==
    /\ canvasWidth' = width
    /\ canvasHeight' = height
    /\ op' = NoOp
    /\ UNCHANGED <<coreVars, sceneStars, starUpdates, rotationX, rotationY,
                   renderVars, inputVars, moreVars>>

NextScene ==
    \/ \E i \in 1..NumSceneStars, speed \in BaseSpeeds, dt \in DeltaTimes :
          StarUpdate(i, speed, dt)
    \/ \E rotX \in {ZeroAngle, Angle(3, 4)}, rotY \in Angles :
          SetRotation(rotX, rotY)
    \/ \E size \in CanvasSizes : Resize(size[1], size[2])

SpecScene == InitScene /\ [][NextScene]_vars

---------------------------------------------------------------------------
(* Specification SpecRender: the colour scheme is changed while the         *)
(* animation loop is started, stopped and delivers frames.                  *)

SchemeInputs     == {"white", "warm", "cool", "sepia"}
RenderDts        == {250, 1000}
BrightnessInputs == {2, 10}

\* Renderer.setColorScheme(scheme), dt after the latest frame or call
SetColorScheme(scheme, dt) ==
    /\ now + dt <= MaxTimeRender
    /\ now' = now + dt
    /\ setColorScheme(scheme, now')
    /\ lastColor' = NoColor
    /\ op' = [name |-> "setColorScheme", arg |-> scheme]
    /\ UNCHANGED <<isRunning, frameGap, sfVars, rdVars, pmVars, appVars,
                   actVars, sceneVars, inputVars, moreVars>>

\* StarField.start(): animate() runs at once, with currentTime = 0
Start(drawn, b) ==
    /\ ~isRunning
    /\ isRunning' = TRUE
    /\ render(0, drawn, b)
    /\ op' = [name |-> "render",
              arg |-> [time |-> 0, drawn |-> drawn, brightness |-> b]]
    /\ UNCHANGED <<coreVars, sceneVars, inputVars, moreVars>>

\* StarField.stop()
Stop ==
    /\ isRunning
    /\ isRunning' = FALSE
    /\ lastColor' = NoColor
    /\ op' = NoOp
    /\ UNCHANGED <<coreVars, sceneVars, inputVars, moreVars, colorScheme,
                   transVars>>

\* StarField.animate(now + dt), called by requestAnimationFrame
AnimationFrame(dt, drawn, b) ==
    /\ isRunning
    /\ now + dt <= MaxTimeRender
    /\ now' = now + dt
    /\ render(now', drawn, b)
    /\ op' = [name |-> "render",
              arg |-> [time |-> now', drawn |-> drawn, brightness |-> b]]
    /\ UNCHANGED <<isRunning, frameGap, sfVars, rdVars, pmVars, appVars,
                   actVars, sceneVars, inputVars, moreVars>>

NextRender ==
    \/ \E scheme \in SchemeInputs, dt \in {0} \cup RenderDts :
          SetColorScheme(scheme, dt)
    \/ \E drawn \in BOOLEAN, b \in BrightnessInputs : Start(drawn, b)
    \/ Stop
    \/ \E dt \in RenderDts, drawn \in BOOLEAN, b \in BrightnessInputs :
          AnimationFrame(dt, drawn, b)

SpecRender == Init /\ [][NextRender]_vars

---------------------------------------------------------------------------
(* Specification SpecInput: pointer events, animation frames and the        *)
(* enabling and disabling of the InputHandler's smoothing loop.             *)

DragDeltas   == {<<-2000, 1500>>, <<2000, 0>>}
TouchCounts  == {1, 2}

\* The names under which the pointer events are observed
PointerEvents == {"mousedown", "mouseup", "mousemove", "touchstart",
                  "touchmove", "touchend"}

touchVars == <<isTouchActive, multiTouchActive>>
turnVars  == <<targetRotationX, targetRotationY>>
loopVars  == <<currentRotationX, currentRotationY, callbacks, cameraRotation>>
restOfInput == <<coreVars, sceneVars, renderVars, moreVars, mouseRotation>>

MouseDown ==
    /\ ~isMouseDown
    /\ isMouseDown' = TRUE
    /\ op' = [name |-> "mousedown", arg |-> 0]
    /\ UNCHANGED <<restOfInput, touchVars, turnVars, loopVars, isUpdating>>

\* handleMouseUp and handleMouseLeave
MouseUp ==
    /\ isMouseDown
    /\ isMouseDown' = FALSE
    /\ op' = [name |-> "mouseup", arg |-> 0]
    /\ UNCHANGED <<restOfInput, touchVars, turnVars, loopVars, isUpdating>>

MouseMove(deltaX, deltaY) ==
    /\ handleMouseMove(deltaX, deltaY)
    /\ op' = [name |-> "mousemove", arg |-> 0]
    /\ UNCHANGED <<restOfInput, isMouseDown, touchVars, loopVars, isUpdating>>

TouchStart(n) ==
    /\ handleTouchStart(n)
    /\ op' = [name |-> "touchstart", arg |-> n]
    /\ UNCHANGED <<restOfInput, isMouseDown, turnVars, loopVars, isUpdating>>

TouchMove(n, deltaX, deltaY) ==
    /\ handleTouchMove(n, deltaX, deltaY)
    /\ op' = [name |-> "touchmove", arg |-> n]
    /\ UNCHANGED <<restOfInput, isMouseDown, touchVars, loopVars, isUpdating>>

\* handleTouchEnd with n touches left; handleTouchCancel acts as n = 0
TouchEnd(n) ==
    /\ isTouchActive \/ multiTouchActive
    /\ handleTouchEnd(n)
    /\ op' = [name |-> "touchend", arg |-> n]
    /\ UNCHANGED <<restOfInput, isMouseDown, turnVars, loopVars, isUpdating>>

\* InputHandler.startUpdateLoop()
StartUpdateLoop ==
    /\ ~isUpdating
    /\ callbacks < MaxCallbacks
    /\ isUpdating' = TRUE
    /\ update(TRUE)
    /\ op' = NoOp
    /\ UNCHANGED <<restOfInput, isMouseDown, touchVars, turnVars>>

\* InputHandler.stopUpdateLoop()
StopUpdateLoop ==
    /\ isUpdating
    /\ isUpdating' = FALSE
    /\ op' = NoOp
    /\ UNCHANGED <<restOfInput, isMouseDown, touchVars, turnVars, loopVars>>

\* An animation frame runs InputHandler.update()
InputFrame ==
    /\ isUpdating => callbacks < MaxCallbacks
    /\ update(isUpdating)
    /\ op' = [name |-> "InputHandler.update", arg |-> 0]
    /\ UNCHANGED <<restOfInput, isMouseDown, touchVars, turnVars, isUpdating>>

\* InputHandler.reset(): no rotation callback is made
InputHandler_reset ==
    /\ currentRotationX' = 0
    /\ currentRotationY' = 0
    /\ targetRotationX' = 0
    /\ targetRotationY' = 0
    /\ UNCHANGED <<callbacks, cameraRotation>>

\* ConfigPanel.handleMouseRotationChange(enabled): startUpdateLoop(), or
\* reset() followed by stopUpdateLoop()
handleMouseRotationChange(enabled) ==
    /\ mouseRotation' = enabled
    /\ IF enabled
       THEN IF ~isUpdating
            THEN /\ isUpdating' = TRUE
                 /\ update(TRUE)
                 /\ UNCHANGED turnVars
            ELSE UNCHANGED <<isUpdating, loopVars, turnVars>>
       ELSE /\ InputHandler_reset
            /\ isUpdating' = FALSE

HandleMouseRotationChange(enabled) ==
    /\ (enabled /\ ~isUpdating) => callbacks < MaxCallbacks
    /\ handleMouseRotationChange(enabled)
    /\ op' = [name |-> "handleMouseRotationChange", arg |-> 0]
    /\ UNCHANGED <<coreVars, sceneVars, renderVars, moreVars, isMouseDown,
                   touchVars>>

NextInput ==
    \/ \E enabled \in BOOLEAN : HandleMouseRotationChange(enabled)
    \/ MouseDown
    \/ MouseUp
    \/ \E d \in DragDeltas : MouseMove(d[1], d[2])
    \/ \E n \in TouchCounts : TouchStart(n)
    \/ \E n \in TouchCounts, d \in DragDeltas : TouchMove(n, d[1], d[2])
    \/ \E n \in {0, 1} : TouchEnd(n)
    \/ StartUpdateLoop
    \/ StopUpdateLoop
    \/ InputFrame

SpecInput == Init /\ [][NextInput]_vars

---------------------------------------------------------------------------
(* StarField.setStarCount and setSpeed called with any number, NaN          *)
(* included.  A number record holds NaN or a value in hundredths.          *)

\* Math.floor of a number in hundredths, as a whole number
Floor(v) == v \div 100

minSpeed == 10
maxSpeed == 500

\* Math.max(0.1, Math.min(5.0, speed)), in hundredths
ClampSpeed(v) == Max(minSpeed, Min(maxSpeed, v))

\* StarField.setStarCount(count).  Math.max and Math.min of NaN are NaN,
\* newCount === this.starCount and newCount > oldCount are false as soon as
\* one side is NaN, so the else branch runs this.stars.splice(newCount),
\* and splice(NaN) removes every element.
StarField_setStarCount(count) ==
    IF ~count.nan /\ ~starCountIsNaN
    THEN /\ setStarCount(Floor(count.val))
         /\ UNCHANGED starCountIsNaN
    ELSE /\ starCountIsNaN' = count.nan
         /\ starCount' = IF count.nan THEN starCount
                         ELSE ClampStarCount(Floor(count.val))
         /\ stars' = IF count.nan THEN <<>>
                     ELSE RemoveExcess(stars, ClampStarCount(Floor(count.val)))

\* StarField.setSpeed(s)
setSpeed(s) ==
    starFieldSpeed' = IF s.nan THEN NaN ELSE Num(ClampSpeed(s.val))

---------------------------------------------------------------------------
(* ConfigPanel (part_000) *)

panelMinStarCount == 100
panelMaxStarCount == 5000

validateStarCount_NoLowerBound(count) ==
    IF count.nan THEN configStarCount
    ELSE Min(panelMaxStarCount, Floor(count.val))

\* if (isNaN(count)) return this.config.starCount;
\* return Math.max(min, Math.min(max, Math.floor(count)))
validateStarCount(count) ==
    IF count.nan THEN configStarCount
    ELSE Max(panelMinStarCount, Min(panelMaxStarCount, Floor(count.val)))

\* parseFloat(speed.toFixed(1)) of a number in hundredths: the nearest
\* tenth, the one further from zero of two equally near
ToFixed1(v) ==
    IF v >= 0 THEN ((v + 5) \div 10) * 10 ELSE 0 - (((5 - v) \div 10) * 10)

validateSpeed_Unrounded(s) ==
    IF s.nan THEN configSpeed ELSE ClampSpeed(s.val)

\* if (isNaN(speed)) return this.config.speed;
\* return Math.max(min, Math.min(max, parseFloat(speed.toFixed(1))))
validateSpeed(s) ==
    IF s.nan THEN configSpeed ELSE ClampSpeed(ToFixed1(s.val))

handleStarCountChange(count) ==
    LET validCount == validateStarCount(count) IN
    IF validCount # configStarCount
    THEN /\ configStarCount' = validCount
         /\ StarField_setStarCount(Num(validCount * 100))
    ELSE UNCHANGED <<configStarCount, stars, starCount, starCountIsNaN>>

handleSpeedChange(s) ==
    LET validSpeed == validateSpeed(s) IN
    IF validSpeed # configSpeed
    THEN /\ configSpeed' = validSpeed
         /\ setSpeed(Num(validSpeed))
    ELSE UNCHANGED <<configSpeed, starFieldSpeed>>

---------------------------------------------------------------------------
(* StarFieldApp.initialize (app.js) *)

desktopStarCount == 1000
mobileStarCount  == 500
smallScreenArea  == 300000
mediumScreenArea == 600000
glowScreenArea   == 400000
mobileLowFps     == 20

\* optimizeForMobile: the star count for a screen of the given area, reduced
\* to Math.floor(optimalStarCount * 0.7) when devicePixelRatio < 1.5
OptimalStarCount(area, lowDpr) ==
    LET byArea == IF area < smallScreenArea THEN 200
                  ELSE IF area < mediumScreenArea THEN 350
                  ELSE 500
    IN IF lowDpr THEN (byArea * 7) \div 10 ELSE byArea

\* this.performanceMonitor.setTargetFPS and setLowPerformanceThreshold are
\* not methods of PerformanceMonitor: the first call raises a TypeError
MonitorHasMobileSetters == FALSE

\* StarFieldApp.start(), with the value isInitialized has when it is called
StarFieldApp_start(initialized) ==
    IF ~initialized \/ appIsRunning
    THEN UNCHANGED <<appIsRunning, isRunning>>
    ELSE /\ isRunning' = TRUE
         /\ appIsRunning' = TRUE

\* StarFieldApp.initialize() on a compatible browser with a canvas
initialize(mobile, area, lowDpr) ==
    LET c == IF mobile THEN mobileStarCount ELSE desktopStarCount
        optimal == OptimalStarCount(area, lowDpr)
        n == IF mobile /\ c > optimal THEN optimal ELSE c
        raised == mobile /\ ~MonitorHasMobileSetters
    IN
    /\ isMobile' = mobile
    \* new StarField(canvas, initialStarCount), then optimizeForMobile
    /\ originalStarCount' = c
    /\ starCount' = n
    /\ stars' = [i \in 1..n |-> i]
    /\ enableGlow' = IF mobile THEN area > glowScreenArea ELSE enableGlow
    /\ lowFpsThreshold' = IF mobile /\ ~raised THEN mobileLowFps
                          ELSE lowFpsThreshold
    \* setupEventListeners, start and isInitialized = true are reached only
    \* when optimizeForMobile has not raised; catch (error) shows the notice
    /\ onLowPerformance' = IF raised THEN onLowPerformance ELSE "StarFieldApp"
    /\ IF raised
       THEN UNCHANGED <<appIsRunning, isRunning>>
       ELSE StarFieldApp_start(isInitialized)
    /\ isInitialized' = ~raised
    /\ errorShown' = raised

---------------------------------------------------------------------------
(* Specification SpecPanel: the application is initialized on a desktop or  *)
(* a mobile device; afterwards the panel's inputs arrive and callers set    *)
(* the StarField's count and speed directly.                                *)

ScreenAreas  == {250000, 480000}
CountNumbers == {NaN, Num(-700), Num(12075), Num(100000), Num(1000000)}
SpeedNumbers == {NaN, Num(4), Num(25), Num(777)}

\* initialize() has run: the StarField and the ConfigPanel exist
Constructed == isInitialized \/ errorShown

Initialize(mobile, area, lowDpr) ==
    /\ ~Constructed
    /\ initialize(mobile, area, lowDpr)
    /\ op' = [name |-> "initialize", arg |-> Num(0)]
    /\ UNCHANGED <<now, frameGap, autoOptimize, lastOptimization, lastRecovery,
                   skipFrames, enableTrails, frameCount, fps, lastFpsUpdate,
                   fpsHistory, actVars>>
    /\ UNCHANGED <<sceneVars, colorScheme, transVars, lastColor, inputVars,
                   starCountIsNaN, starFieldSpeed, configStarCount, configSpeed,
                   tickVars, batchVars, hostVars>>

CallSetStarCount(count) ==
    /\ Constructed
    /\ StarField_setStarCount(count)
    /\ op' = [name |-> "setStarCount", arg |-> count]
    /\ UNCHANGED <<now, frameGap, originalStarCount, autoOptimize,
                   lastOptimization, lastRecovery, skipFrames, rdVars, pmVars,
                   appVars, actVars>>
    /\ UNCHANGED <<sceneVars, renderVars, inputVars, starFieldSpeed,
                   configStarCount, configSpeed, isInitialized, appIsRunning,
                   errorShown, tickVars, batchVars, hostVars>>

CallSetSpeed(s) ==
    /\ Constructed
    /\ setSpeed(s)
    /\ op' = [name |-> "setSpeed", arg |-> s]
    /\ UNCHANGED <<coreVars, sceneVars, renderVars, inputVars, starCountIsNaN,
                   configStarCount, configSpeed, isInitialized, appIsRunning,
                   errorShown, tickVars, batchVars, hostVars>>

HandleStarCountChange(count) ==
    /\ Constructed
    /\ handleStarCountChange(count)
    /\ op' = [name |-> "handleStarCountChange", arg |-> count]
    /\ UNCHANGED <<now, frameGap, originalStarCount, autoOptimize,
                   lastOptimization, lastRecovery, skipFrames, rdVars, pmVars,
                   appVars, actVars>>
    /\ UNCHANGED <<sceneVars, renderVars, inputVars, starFieldSpeed,
                   configSpeed, isInitialized, appIsRunning, errorShown,
                   tickVars, batchVars, hostVars>>

HandleSpeedChange(s) ==
    /\ Constructed
    /\ handleSpeedChange(s)
    /\ op' = [name |-> "handleSpeedChange", arg |-> s]
    /\ UNCHANGED <<coreVars, sceneVars, renderVars, inputVars, starCountIsNaN,
                   configStarCount, isInitialized, appIsRunning, errorShown,
                   tickVars, batchVars, hostVars>>

NextPanel ==
    \/ \E mobile \in BOOLEAN, area \in ScreenAreas, lowDpr \in BOOLEAN :
          Initialize(mobile, area, lowDpr)
    \/ \E count \in CountNumbers : CallSetStarCount(count)
    \/ \E s \in SpeedNumbers : CallSetSpeed(s)
    \/ \E count \in CountNumbers : HandleStarCountChange(count)
    \/ \E s \in SpeedNumbers : HandleSpeedChange(s)

SpecPanel == Init /\ [][NextPanel]_vars

---------------------------------------------------------------------------
(* StarField.update (part_003): one animation tick of a StarField *)

firstDeltaTime      == 16
memoryCheckInterval == 5000

\* deltaTime = this.lastTime ? (currentTime - this.lastTime) / 1000 : 0.016,
\* in milliseconds
DeltaTimeSince(last, t) == IF last # 0 THEN t - last ELSE firstDeltaTime

DeltaTime(t) == DeltaTimeSince(lastTime, t)

\* currentTime - memMgmt.lastMemoryCheck > memMgmt.memoryCheckInterval
MemoryCheckDue(t) == t - lastMemoryCheck > memoryCheckInterval

\* StarField.resetStars(), every star drawing the same random values
resetStars(s, xy, rsp) ==
    [i \in DOMAIN s |-> Star_reset(s[i], xy[1], xy[2], rsp)]

ShouldSkip_Never(counter, sf) == FALSE

\* What shouldSkipFrame() returns when frameSkipCounter is counter and
\* skipFrames is sf
ShouldSkip(counter, sf) == sf > 0 /\ ~(counter + 1 > sf)

\* frameSkipCounter after shouldSkipFrame()
SkipCounterAfter(counter, sf) ==
    IF sf <= 0 THEN counter
    ELSE IF counter + 1 > sf THEN 0
    ELSE counter + 1

\* StarField.getFPS()
getFPS == starFieldFps

\* StarField.update(t) when this.lastTime is last and skipFrames is sf.
\* memHigh tells whether the host reports a heap above maxMemoryUsage (false
\* when it reports none); xy and rsp are the random values a reset star
\* draws.  The garbage-collection hints change nothing the model holds.
StarField_updateAt(t, last, sf, memHigh, xy, rsp) ==
    LET deltaTime == DeltaTimeSince(last, t)
        reset == MemoryCheckDue(t) /\ memHigh
        skip == ShouldSkip(frameSkipCounter, sf)
        held == IF reset THEN resetStars(sceneStars, xy, rsp) ELSE sceneStars
    IN
    /\ lastTime' = t
    /\ lastMemoryCheck' = IF MemoryCheckDue(t) THEN t ELSE lastMemoryCheck
    /\ frameSkipCounter' = SkipCounterAfter(frameSkipCounter, sf)
    /\ sceneStars' =
          IF skip THEN held
          ELSE [i \in DOMAIN held |->
                   Star_update(held[i], starFieldSpeed.val \div 10, deltaTime,
                               xy[1], xy[2], rsp)]
    /\ tick' = [skipped |-> skip, skipFrames |-> sf,
                reset |-> reset, dt |-> deltaTime]
    /\ UNCHANGED starFieldFps

\* StarField.update(now + dt)
StarField_update(dt, memHigh, xy, rsp) ==
    StarField_updateAt(now + dt, lastTime, skipFrames', memHigh, xy, rsp)

---------------------------------------------------------------------------
(* Specification SpecTick: a stand-alone StarField whose update is called   *)
(* for every animation frame; the host delivers frames frameGap apart and   *)
(* may change that rate after an evaluation.                                *)

MaxTimeTick == 5100
TickDts     == {20, 60}
TickZs      == {3, 500}

InitTick ==
    /\ InitCore
    /\ sceneStars \in [1..NumSceneStars ->
                          UNION {StarInputs(i) : i \in 1..NumSceneStars}]
    /\ \A i \in 1..NumSceneStars :
          sceneStars[i] \in StarInputs(i) /\ sceneStars[i].z \in TickZs
    /\ starUpdates = 0
    /\ CameraInit
    /\ RendererInit
    /\ InputInit
    /\ PanelInit
    /\ TickInit
    /\ BatchInit
    /\ HostInit

Update(dt, memHigh, xy, rsp) ==
    /\ PerformanceMonitor_update(dt, MaxTimeTick)
    /\ StarField_update(dt, memHigh, xy, rsp)
    /\ UNCHANGED <<starUpdates, camVars, renderVars, inputVars, panelVars,
                   batchVars, hostVars>>

NextTick ==
    \E dt \in TickDts, memHigh \in BOOLEAN, xy \in ResetXYs, rsp \in StarSpeeds :
       Update(dt, memHigh, xy, rsp)

SpecTick == InitTick /\ [][NextTick]_vars

---------------------------------------------------------------------------
(* Renderer.groupStarsForBatching (renderer.js).  A star datum is a record  *)
(* of its place in the depth-sorted input, its brightness in tenths and its *)
(* size in tenths of a pixel.                                               *)

StarData(id, brightness, size) ==
    [id |-> id, brightness |-> brightness, size |-> size]

NoBatchType == "null"
fallbackBatchSize == 100

\* Renderer.getStarBatchType(starData)
getStarBatchType(starData) ==
    LET brightnessGroup == IF starData.brightness > 7 THEN "bright"
                           ELSE IF starData.brightness > 3 THEN "medium"
                           ELSE "dim"
        sizeGroup == IF starData.size > 40 THEN "large"
                     ELSE IF starData.size > 20 THEN "medium"
                     ELSE "small"
    IN <<brightnessGroup, sizeGroup>>

BatchFull_Never(len, m) == FALSE

\* currentBatch.length >= (this.config.maxBatchSize || 100)
BatchFull(len, m) == len >= (IF m = 0 THEN fallbackBatchSize ELSE m)

\* batches.push({type, stars}) when the current batch holds a star
PushBatch(bs, currentBatch, currentBatchType) ==
    IF Len(currentBatch) > 0
    THEN Append(bs, [type |-> currentBatchType, stars |-> currentBatch])
    ELSE bs

\* The loop of groupStarsForBatching from the i-th star on
RECURSIVE GroupFrom(_, _, _, _, _, _)
GroupFrom(s, i, m, bs, currentBatch, currentBatchType) ==
    IF i > Len(s)
    THEN PushBatch(bs, currentBatch, currentBatchType)
    ELSE LET batchType == getStarBatchType(s[i]) IN
         IF currentBatchType # batchType \/ BatchFull(Len(currentBatch), m)
         THEN GroupFrom(s, i + 1, m,
                        PushBatch(bs, currentBatch, currentBatchType),
                        <<s[i]>>, batchType)
         ELSE GroupFrom(s, i + 1, m, bs, Append(currentBatch, s[i]),
                        currentBatchType)

\* Renderer.groupStarsForBatching(stars) with config.maxBatchSize = m
groupStarsForBatching(s, m) ==
    GroupFrom(s, 1, m, <<>>, <<>>, <<NoBatchType, NoBatchType>>)

---------------------------------------------------------------------------
(* Specification SpecBatch: the renderer's batch size is configured and     *)
(* depth-sorted star data are rendered in batches.  The input is up to      *)
(* MaxRuns runs of stars of one kind each.                                  *)

MaxRuns      == 2
BatchSizes   == {2, 3, 100}
RunLengths   == {1, 3, 7}
StarKinds    == {<<3, 20>>, <<4, 20>>, <<7, 21>>, <<8, 41>>}

\* The star data of the runs rs (pairs of a kind and a length), numbered
\* from id on
RECURSIVE RunsFrom(_, _)
RunsFrom(rs, id) ==
    IF rs = <<>> THEN <<>>
    ELSE [i \in 1..rs[1][2] |->
             StarData(id + i - 1, rs[1][1][1], rs[1][1][2])]
         \o RunsFrom(Tail(rs), id + rs[1][2])

BatchInputs ==
    {RunsFrom(rs, 1) :
        rs \in UNION {[1..n -> StarKinds \X RunLengths] : n \in 1..MaxRuns}}

\* renderer.updateConfig({maxBatchSize: m})
UpdateConfig(m) ==
    /\ maxBatchSize' = m
    /\ op' = NoOp
    /\ UNCHANGED <<coreVars, sceneVars, renderVars, inputVars, panelVars,
                   tickVars, batchStars, batches, hostVars>>

\* Renderer.renderStarsBatched(sortedStars, currentTime)
RenderStarsBatched(sortedStars) ==
    /\ batchStars' = sortedStars
    /\ batches' = groupStarsForBatching(sortedStars, maxBatchSize)
    /\ op' = [name |-> "renderStarsBatched", arg |-> Len(sortedStars)]
    /\ UNCHANGED <<coreVars, sceneVars, renderVars, inputVars, panelVars,
                   tickVars, maxBatchSize, hostVars>>

NextBatch ==
    \/ \E m \in BatchSizes : UpdateConfig(m)
    \/ \E sortedStars \in BatchInputs : RenderStarsBatched(sortedStars)

SpecBatch == Init /\ [][NextBatch]_vars

---------------------------------------------------------------------------
(* Specification SpecEffects: the configuration panel's trail toggle and    *)
(* the monitor's evaluations.                                               *)

\* ConfigPanel.handleTrailEffectChange(enabled)
handleTrailEffectChange(enabled) ==
    /\ configTrailEffect' = enabled
    /\ enableTrails' = enabled       \* starField.setTrailsEnabled(enabled)

HandleTrailEffectChange(enabled) ==
    /\ handleTrailEffectChange(enabled)
    /\ op' = NoOp
    /\ UNCHANGED <<now, frameGap, sfVars, enableGlow, pmVars, appVars,
                   actVars>>
    /\ UNCHANGED <<sceneVars, renderVars, inputVars, panelVars, tickVars,
                   batchVars, rafQueue, rafDue, monitorUpdates, starts>>

NextEffects ==
    \/ \E dt \in FrameGaps, f \in FpsInputs : EvaluationFrame(dt, f, MaxTime)
    \/ \E enabled \in BOOLEAN : HandleTrailEffectChange(enabled)

SpecEffects == Init /\ [][NextEffects]_vars

---------------------------------------------------------------------------
(* Specification SpecLoop: the animation loops of the StarField and of the  *)
(* StarFieldApp on the host's requestAnimationFrame queue.  The host runs   *)
(* the callbacks of one animation frame in the order in which they were     *)
(* requested; calls of start() and stop() arrive between frames.  While a   *)
(* loop runs the host delivers a frame every 25 ms (40 frames per second);  *)
(* while none runs any time may pass.  No star is tracked, so a frame       *)
(* draws nothing.                                                           *)

MaxTimeLoop == 1600
MaxStarts   == 3
SteadyGaps  == {25}
IdleGaps    == {1500}
CallTimes   == {0, 500, 1500}    \* the clocks at which start() and stop() are called

\* How many callbacks named c the queue q holds
CountOf(q, c) == Cardinality({i \in DOMAIN q : q[i] = c})

\* cancelAnimationFrame(this.animationId)
cancelAnimationFrame(q, c) == SelectSeq(q, LAMBDA x : x # c)

\* A frame of the StarField at timestamp t: update(t), then render(t)
StarField_frame(t, last) ==
    /\ StarField_updateAt(t, last, skipFrames, FALSE, <<0, 0>>, 1)
    /\ render(t, FALSE, 0)

\* StarField.start(): animate() runs at once with currentTime = 0
FieldStart ==
    /\ rafDue = <<>>
    /\ now \in CallTimes
    /\ starts < MaxStarts
    /\ starts' = starts + 1
    /\ ~isRunning
    /\ isRunning' = TRUE
    /\ PerformanceMonitor_updateFrom(frameCount, 0)
    /\ StarField_frame(0, 0)
    /\ rafQueue' = Append(rafQueue, "animate")
    /\ UNCHANGED <<now, frameGap, starUpdates, camVars, inputVars, panelVars,
                   batchVars, configTrailEffect, rafDue, monitorUpdates>>

\* StarField.stop()
FieldStop ==
    /\ rafDue = <<>>
    /\ now \in CallTimes
    /\ isRunning
    /\ isRunning' = FALSE
    /\ rafQueue' = cancelAnimationFrame(rafQueue, "animate")
    /\ lastColor' = NoColor
    /\ op' = NoOp
    /\ UNCHANGED <<coreVars, sceneVars, inputVars, panelVars, tickVars,
                   batchVars, colorScheme, transVars, configTrailEffect,
                   rafDue, monitorUpdates, starts>>

\* StarFieldApp.start(): starField.start(), which returns at once when the
\* StarField is running and otherwise makes one monitor update that only
\* counts a frame (its timestamp is 0); then this.update()
AppStart ==
    /\ rafDue = <<>>
    /\ now \in CallTimes
    /\ starts < MaxStarts
    /\ starts' = starts + 1
    /\ isInitialized
    /\ ~appIsRunning
    /\ StarFieldApp_start(isInitialized)
    /\ IF isRunning
       THEN /\ PerformanceMonitor_updateFrom(frameCount, now)
            /\ lastColor' = NoColor
            /\ UNCHANGED <<tickVars, sceneStars, colorScheme, transVars>>
            /\ rafQueue' = Append(rafQueue, "appUpdate")
       ELSE /\ PerformanceMonitor_updateFrom(frameCount + 1, now)
            /\ StarField_frame(0, 0)
            /\ rafQueue' = rafQueue \o <<"animate", "appUpdate">>
    /\ UNCHANGED <<now, frameGap, starUpdates, camVars, inputVars,
                   starCountIsNaN, starFieldSpeed, configStarCount, configSpeed,
                   isInitialized, errorShown, batchVars, configTrailEffect,
                   rafDue, monitorUpdates>>

\* StarFieldApp.stop(): the callback this.update() requested stays queued
AppStop ==
    /\ rafDue = <<>>
    /\ now \in CallTimes
    /\ appIsRunning
    /\ appIsRunning' = FALSE
    /\ isRunning' = FALSE
    /\ rafQueue' = cancelAnimationFrame(rafQueue, "animate")
    /\ lastColor' = NoColor
    /\ op' = NoOp
    /\ UNCHANGED <<coreVars, sceneVars, inputVars, starCountIsNaN,
                   starFieldSpeed, configStarCount, configSpeed, isInitialized,
                   errorShown, tickVars, batchVars, colorScheme, transVars,
                   configTrailEffect, rafDue, monitorUpdates, starts>>

\* The host begins an animation frame dt after the previous one: the
\* callbacks requested so far become due
NewFrame(dt) ==
    /\ rafDue = <<>>
    /\ rafQueue # <<>>
    /\ now + dt <= MaxTimeLoop
    /\ now' = now + dt
    /\ rafDue' = rafQueue
    /\ rafQueue' = <<>>
    /\ monitorUpdates' = 0
    /\ op' = NoOp
    /\ UNCHANGED <<frameGap, sfVars, rdVars, pmVars, appVars, actVars,
                   sceneVars, renderVars, inputVars, panelVars, tickVars,
                   batchVars, configTrailEffect, starts>>

\* Time passes without an animation frame while no loop is running (the
\* page is loading or hidden)
Idle(dt) ==
    /\ rafDue = <<>>
    /\ ~isRunning
    /\ ~appIsRunning
    /\ now + dt <= MaxTimeLoop
    /\ now' = now + dt
    /\ op' = NoOp
    /\ UNCHANGED <<frameGap, sfVars, rdVars, pmVars, appVars, actVars,
                   extVars>>

\* The host runs the due callback (time) => this.animate(time)
AnimateCallback ==
    /\ rafDue # <<>>
    /\ Head(rafDue) = "animate"
    /\ rafDue' = Tail(rafDue)
    /\ IF isRunning
       THEN /\ PerformanceMonitor_updateFrom(frameCount, now)
            /\ StarField_frame(now, lastTime)
            /\ rafQueue' = Append(rafQueue, "animate")
            /\ monitorUpdates' = monitorUpdates + 1
       ELSE /\ op' = NoOp
            /\ UNCHANGED <<sfVars, rdVars, pmVars, appVars, actVars,
                           sceneStars, tickVars, colorScheme, transVars,
                           lastColor, rafQueue, monitorUpdates>>
    /\ UNCHANGED <<now, frameGap, isRunning, starUpdates, camVars, inputVars,
                   panelVars, batchVars, configTrailEffect, starts>>

\* The host runs the due callback () => this.update() of the StarFieldApp
AppUpdateCallback ==
    /\ rafDue # <<>>
    /\ Head(rafDue) = "appUpdate"
    /\ rafDue' = Tail(rafDue)
    /\ IF appIsRunning
       THEN /\ PerformanceMonitor_updateFrom(frameCount, now)
            /\ rafQueue' = Append(rafQueue, "appUpdate")
            /\ monitorUpdates' = monitorUpdates + 1
       ELSE /\ op' = NoOp
            /\ UNCHANGED <<sfVars, rdVars, pmVars, appVars, actVars,
                           rafQueue, monitorUpdates>>
    /\ UNCHANGED <<now, frameGap, sceneVars, renderVars, inputVars, panelVars,
                   tickVars, batchVars, configTrailEffect, starts>>

NextLoop ==
    \/ Initialize(FALSE, 480000, FALSE)
    \/ FieldStart
    \/ FieldStop
    \/ AppStart
    \/ AppStop
    \/ \E dt \in SteadyGaps : NewFrame(dt)
    \/ \E dt \in IdleGaps : Idle(dt)
    \/ AnimateCallback
    \/ AppUpdateCallback

SpecLoop == Init /\ [][NextLoop]_vars

---------------------------------------------------------------------------
(* Claims *)

\* C1: after setStarCount(n), for any integer n, starCount is n clamped to
\* [1, 5000] and the collection has exactly starCount stars; when the count
\* decreases, the collection is the first starCount stars it held before.
C1_SetStarCountClamps ==
    [][op'.name = "setStarCount" =>
          /\ starCount' = (IF op'.arg < 1 THEN 1
                           ELSE IF op'.arg > 5000 THEN 5000 ELSE op'.arg)
          /\ Len(stars') = starCount'
          /\ starCount' < starCount =>
                \A i \in 1..starCount' : stars'[i] = stars[i]]_vars

C1_Witness ==
    /\ op.name = "setStarCount"
    /\ op.arg < 1
    /\ starCount = 1
    /\ stars = <<1>>

\* C2 as stated: in every reachable state minStarCount <= starCount <= 5000.
C2_Original == minStarCount <= starCount /\ starCount <= 5000

\* C2 amended: in every reachable state 1 <= starCount <= 5000 (the lower
\* bound setStarCount enforces is 1, not minStarCount).
C2_CountWithinArgBounds == 1 <= starCount /\ starCount <= 5000

C2_Witness == starCount < minStarCount /\ op.name = "low"

\* C3: when StarField.handleLowPerformance acts (the callback is the
\* StarField's, auto-optimisation is on and at least 2000 ms have passed
\* since the last optimisation), a count c > minStarCount becomes
\* max(minStarCount, c - max(floor(c / 4), 1)), a count c <= minStarCount is
\* unchanged; 1000 becomes 750 and a count at or above minStarCount stays so.
C3_LowPerformanceReduction ==
    [][(/\ op'.name = "low"
        /\ onLowPerformance = "StarField"
        /\ autoOptimize
        /\ now' - lastOptimization >= 2000) =>
          /\ starCount > 100 =>
                starCount' =
                   (LET cut == IF starCount \div 4 > 1 THEN starCount \div 4 ELSE 1
                    IN  IF starCount - cut < 100 THEN 100 ELSE starCount - cut)
          /\ starCount <= 100 => starCount' = starCount
          /\ starCount = 1000 => starCount' = 750
          /\ starCount >= 100 => starCount' >= 100]_vars

C3_Witness ==
    /\ op.name = "low"
    /\ starCount = 750
    /\ lastOptimization = now
    /\ now > 0

\* C4: when the StarField handles a low-performance notification past its
\* rate-limit guard, a reported FPS below 20 leaves glow and trails disabled
\* and skipFrames = 1, and a reported FPS of 20 or more leaves glow, trails
\* and skipFrames as they were.
C4_EffectsReducedBelow20 ==
    [][(/\ op'.name = "low"
        /\ onLowPerformance = "StarField"
        /\ autoOptimize
        /\ now' - lastOptimization >= 2000) =>
          /\ op'.arg < 20 =>
                ~enableGlow' /\ ~enableTrails' /\ skipFrames' = 1
          /\ op'.arg >= 20 =>
                /\ enableGlow' = enableGlow
                /\ enableTrails' = enableTrails
                /\ skipFrames' = skipFrames]_vars

C4_Witness ==
    /\ op.name = "low"
    /\ op.arg < 20
    /\ lastOptimization = now
    /\ ~enableGlow /\ ~enableTrails /\ skipFrames = 1

\* C5 as stated: two steps in which a low-performance notification reduces
\* the star count or the effects are at least 2000 ms apart.
C5_Claim == Len(lowActs) = 2 => lowActs[2] - lowActs[1] >= 2000

\* C6: when StarField.handleGoodPerformance acts (auto-optimisation is on
\* and at least recoveryDelay ms have passed since the last recovery), a
\* count c < originalStarCount with FPS > 50 becomes
\* c + min(floor(originalStarCount / 10), originalStarCount - c), and the
\* count is unchanged otherwise; 750 with original 1000 becomes 850.
C6_GoodPerformanceRecovery ==
    [][(/\ op'.name = "good"
        /\ autoOptimize
        /\ now' - lastRecovery >= 5000) =>
          /\ (starCount < originalStarCount /\ op'.arg > 50) =>
                starCount' = starCount +
                   (IF originalStarCount \div 10 < originalStarCount - starCount
                    THEN originalStarCount \div 10
                    ELSE originalStarCount - starCount)
          /\ (starCount >= originalStarCount \/ op'.arg <= 50) =>
                starCount' = starCount
          /\ (starCount = 750 /\ originalStarCount = 1000 /\ op'.arg > 50) =>
                starCount' = 850]_vars

C6_Witness ==
    /\ op.name = "good"
    /\ op.arg > 50
    /\ starCount = 850
    /\ originalStarCount = 1000
    /\ lastRecovery = now

\* C7: every increase of the star count made by a good-performance
\* notification leaves starCount <= originalStarCount.
C7_RecoveryBoundedByOriginal ==
    [][(op'.name = "good" /\ starCount' > starCount) =>
          starCount' <= originalStarCount]_vars

C7_Witness ==
    /\ op.name = "good"
    /\ goodActs # <<>>
    /\ goodActs[Len(goodActs)] = now
    /\ starCount = originalStarCount

\* C8: two steps in which a good-performance notification raises the star
\* count are at least recoveryDelay (5000 ms) apart.
C8_RecoveryRateLimited ==
    Len(goodActs) = 2 => goodActs[2] - goodActs[1] >= 5000

C8_Witness == Len(goodActs) = 2 /\ goodActs[2] = now /\ op.name = "good"

\* C9 as stated, for one notification: a good-performance notification with
\* FPS > 50 that arrives after the recovery delay, when low-performance
\* handling has left glow and trails disabled and skipFrames = 1, leaves
\* glow and trails enabled and skipFrames = 0, whatever the star count is.
\* (handleGoodPerformance decides from starCount, originalStarCount and
\* enableGlow alone, so a notification that does not re-enable the effects
\* leaves a state in which the next one does not either.)
C9_Claim ==
    [][(/\ op'.name = "good"
        /\ op'.arg > 50
        /\ autoOptimize
        /\ now' - lastRecovery >= 5000
        /\ ~enableGlow /\ ~enableTrails /\ skipFrames = 1) =>
          (enableGlow' /\ enableTrails' /\ skipFrames' = 0)]_vars

\* C10 as stated: at every evaluation the low-performance notification fires
\* iff the arithmetic mean of fpsHistory is below lowFpsThreshold, the
\* good-performance notification fires iff the mean is above
\* lowFpsThreshold + 10, and never both.
C10_Original ==
    op.name \in {"low", "good", "none"} =>
       /\ op.name = "low" <=>
             SumSeq(fpsHistory) < Len(fpsHistory) * lowFpsThreshold
       /\ op.name = "good" <=>
             SumSeq(fpsHistory) > Len(fpsHistory) * (lowFpsThreshold + 10)

\* C10 amended: at every evaluation the low-performance notification fires
\* iff the mean of fpsHistory rounded to the nearest integer (halves up) is
\* below lowFpsThreshold, i.e. iff mean < lowFpsThreshold - 1/2; the
\* good-performance notification fires iff the rounded mean is above
\* lowFpsThreshold + 10, i.e. iff mean >= lowFpsThreshold + 10 + 1/2; and
\* never both.
C10_RoundedMeanThresholds ==
    op.name \in {"low", "good", "none"} =>
       /\ Len(fpsHistory) > 0
       /\ op.name = "low" <=>
             2 * SumSeq(fpsHistory) < Len(fpsHistory) * (2 * lowFpsThreshold - 1)
       /\ op.name = "good" <=>
             2 * SumSeq(fpsHistory) >= Len(fpsHistory) * (2 * lowFpsThreshold + 21)
       /\ ~(op.name = "low" /\ op.name = "good")

C10_Witness ==
    /\ op.name = "none"
    /\ SumSeq(fpsHistory) < Len(fpsHistory) * lowFpsThreshold

---------------------------------------------------------------------------
\* C11: fpsHistory never holds more than 60 readings, and every evaluation
\* appends the new one-second reading at the end; when the history already
\* holds 60 readings the oldest is dropped and the others keep their order.
C11_HistoryFifo ==
    [][lastFpsUpdate' # lastFpsUpdate =>
          /\ Len(fpsHistory') <= 60
          /\ fps' = frameCount + 1
          /\ fpsHistory' =
                IF Len(fpsHistory) = 60
                THEN SubSeq(fpsHistory, 2, 60) \o <<fps'>>
                ELSE fpsHistory \o <<fps'>>]_vars

\* A full history whose oldest reading differed from the next one has
\* just taken a 61st reading
C11_Witness ==
    /\ now > 60 * fpsUpdateInterval
    /\ lastFpsUpdate = now
    /\ Len(fpsHistory) = 60
    /\ ~Steady(fpsHistory)
    /\ fpsHistory[60] = fps
---------------------------------------------------------------------------
\* C12: after Star.update(speed, deltaTime) with speed > 0 and deltaTime >= 0
\* on a star with z <= maxDistance, minDistance < z <= maxDistance; when the
\* decrement drives z to minDistance or below, the star ends at
\* z == maxDistance with prevX == x and prevY == y.
C12_UpdateKeepsStarInRange ==
    [][op'.name = "Star.update" =>
          LET before == sceneStars[op'.arg.star]
              after  == sceneStars'[op'.arg.star]
              moved  == before.z - (op'.arg.speed * before.speed *
                                    op'.arg.dt * 60) \div 100000
          IN  (op'.arg.speed > 0 /\ op'.arg.dt >= 0 /\ before.z <= 1000) =>
                 /\ 1 < after.z /\ after.z <= 1000
                 /\ moved <= 1 =>
                       /\ after.z = 1000
                       /\ after.prevX = after.x
                       /\ after.prevY = after.y]_vars

\* A star that Star.update has just moved to or past the viewer and reset
C12_Witness ==
    /\ op.name = "Star.update"
    /\ op.arg.dt > 0
    /\ sceneStars[op.arg.star].z = maxDistance
    /\ sceneStars[op.arg.star].x = -500
    /\ sceneStars[op.arg.star].prevX = -500

---------------------------------------------------------------------------
\* C13: every record getVisibleStars emits belongs to a star with
\* minDistance <= z <= maxDistance and has a non-null screen position with
\* x in [-50, w + 50] and y in [-50, h + 50]; the number of records is
\* between 0 and stars.length.
C13_VisibleRecordsOnScreen ==
    /\ Len(getVisibleStars) >= 0
    /\ Len(getVisibleStars) <= Len(sceneStars)
    /\ \A k \in 1..Len(getVisibleStars) :
          LET r == getVisibleStars[k] IN
          /\ 1 <= r.star.z /\ r.star.z <= 1000
          /\ r.screenPos # Null
          /\ -50 * r.screenPos.x.d <= r.screenPos.x.n
          /\ r.screenPos.x.n <= (canvasWidth + 50) * r.screenPos.x.d
          /\ -50 * r.screenPos.y.d <= r.screenPos.y.n
          /\ r.screenPos.y.n <= (canvasHeight + 50) * r.screenPos.y.d

\* Under a rotated camera one star is emitted and the other one, although
\* within the distance bounds and the rough frustum, is culled
C13_Witness ==
    /\ rotationY = Angle(3, 4)
    /\ Len(getVisibleStars) = 1
    /\ \A i \in 1..Len(sceneStars) :
          isVisible(sceneStars[i]) /\ isStarInFrustum(sceneStars[i])

---------------------------------------------------------------------------
\* The points project3DTo2D is evaluated on: the stars' and the probes'
C14_Points ==
    ProbePoints \cup
    {<<sceneStars[i].x, sceneStars[i].y, sceneStars[i].z>> :
        i \in 1..Len(sceneStars)}

\* C14: project3DTo2D(x, y, z) is null for every z <= 0 and whenever the
\* rotated z is <= 0, never has depth <= 0, and without rotation and with
\* z > 0 it is (x * focalLength / z + canvasWidth / 2,
\* y * focalLength / z + canvasHeight / 2) with depth z.
C14_ProjectionContract ==
    \A p \in C14_Points :
       LET r == project3DTo2D(p[1], p[2], p[3]) IN
       /\ p[3] <= 0 => r = Null
       /\ applyRotation(p[1], p[2], p[3]).z <= 0 => r = Null
       /\ r # Null => r.z.n > 0
       /\ (rotationX = ZeroAngle /\ rotationY = ZeroAngle /\ p[3] > 0) =>
             /\ r # Null
             /\ r.x = Frac(2 * p[1] * focalLength + canvasWidth * p[3],
                           2 * p[3])
             /\ r.y = Frac(2 * p[2] * focalLength + canvasHeight * p[3],
                           2 * p[3])
             /\ r.z = Frac(p[3], 1)

\* The camera is turned so that a point in front of it (z > 0) is rotated
\* behind it, and the projection is null
C14_Witness ==
    /\ rotationY = Angle(-5, 0)
    /\ \E p \in C14_Points :
          /\ p[3] > 0
          /\ applyRotation(p[1], p[2], p[3]).z <= 0
          /\ project3DTo2D(p[1], p[2], p[3]) = Null

---------------------------------------------------------------------------
\* The stars brightness is evaluated on: the scene's, at every input distance
C15_Stars ==
    {sceneStars[i] : i \in 1..Len(sceneStars)} \cup
    {Star(0, 0, z, 5) : z \in SceneZs}

\* C15: getBrightness is non-increasing in z on [minDistance, maxDistance],
\* is 1 at minDistance and 0 at maxDistance, and lies in [0, 1] for every z.
C15_BrightnessMonotone ==
    /\ \A s1, s2 \in C15_Stars :
          (1 <= s1.z /\ s1.z < s2.z /\ s2.z <= 1000) =>
             getBrightness(s1) >= getBrightness(s2)
    /\ \A s \in C15_Stars :
          /\ s.z = 1 => getBrightness(s) = BrightnessScale
          /\ s.z = 1000 => getBrightness(s) = 0
          /\ 0 <= getBrightness(s) /\ getBrightness(s) <= BrightnessScale

\* After an update the two stars are at different distances within the
\* bounds and differ in brightness
C15_Witness ==
    /\ op.name = "Star.update"
    /\ \E i, j \in 1..Len(sceneStars) :
          /\ isVisible(sceneStars[i]) /\ isVisible(sceneStars[j])
          /\ sceneStars[i].z < sceneStars[j].z
          /\ getBrightness(sceneStars[i]) > getBrightness(sceneStars[j])
---------------------------------------------------------------------------
\* C16: when a render that draws at least one star happens at or past
\* startTime + 1000 ms of an active transition, isTransitioning becomes
\* false, fromScheme and toScheme are cleared, and the colour computed is
\* the unblended colour of the scheme being switched to: the current
\* scheme, which is the transition's toScheme unless setColorScheme was
\* called again during the transition.
C16_TransitionTerminates ==
    [][(/\ op'.name = "render"
        /\ op'.arg.drawn
        /\ isTransitioning
        /\ op'.arg.time >= startTime + 1000) =>
          /\ isTransitioning' = FALSE
          /\ fromScheme' = NoScheme
          /\ toScheme' = NoScheme
          /\ lastColor' = applyBrightnessAndContrast(SchemeRGB(colorScheme),
                                                     op'.arg.brightness)
          /\ toScheme = colorScheme =>
                lastColor' = applyBrightnessAndContrast(SchemeRGB(toScheme),
                                                       op'.arg.brightness)]_vars

\* A frame a full duration after the start of a transition to the warm
\* scheme has just drawn a full-brightness star in the warm colour
C16_Witness ==
    /\ op.name = "render"
    /\ op.arg.drawn
    /\ op.arg.brightness = 10
    /\ op.arg.time >= startTime + transitionDuration
    /\ startTime > 0
    /\ colorScheme = "warm"
    /\ ~isTransitioning
    /\ progress = ProgressScale
    /\ lastColor = <<255, 220, 180>>

---------------------------------------------------------------------------
\* C17: for any sequence of setColorScheme calls and of renders with the
\* timestamps the animation loop passes, progress lies in [0, 1], never
\* decreases while a transition is active, and the transition is cleared
\* when progress reaches 1.
C17_Claim ==
    [][/\ 0 <= progress' /\ progress' <= ProgressScale
       /\ (isTransitioning /\ isTransitioning' /\ startTime' = startTime) =>
             progress' >= progress
       /\ progress' >= ProgressScale => ~isTransitioning']_vars

---------------------------------------------------------------------------
\* C18: setColorScheme(name) changes nothing when name is unknown or is the
\* current scheme; otherwise colorScheme becomes name at once and, if no
\* transition was active, one starts with fromScheme = the previous scheme,
\* toScheme = name and progress = 0.
C18_SetColorScheme ==
    [][op'.name = "setColorScheme" =>
          IF \/ op'.arg \notin {"white", "blue-white", "rainbow", "warm",
                                 "cool", "nebula"}
             \/ op'.arg = colorScheme
          THEN /\ colorScheme' = colorScheme
               /\ transVars' = transVars
          ELSE /\ colorScheme' = op'.arg
               /\ ~isTransitioning =>
                     /\ isTransitioning'
                     /\ fromScheme' = colorScheme
                     /\ toScheme' = op'.arg
                     /\ progress' = 0]_vars

\* setColorScheme has just started a transition away from a scheme that
\* an earlier, completed transition had switched to
C18_Witness ==
    /\ op.name = "setColorScheme"
    /\ isTransitioning
    /\ startTime = now
    /\ fromScheme \in {"warm", "cool"}
    /\ toScheme = op.arg
    /\ colorScheme = op.arg
    /\ progress = 0

---------------------------------------------------------------------------
\* C19 as stated: the target vertical rotation stays within
\* [-maxRotation, maxRotation] and the horizontal one within (-pi, pi].
C19_Original ==
    /\ -maxRotation <= targetRotationX /\ targetRotationX <= maxRotation
    /\ -PI < targetRotationY /\ targetRotationY <= PI

\* C19, amended: the target vertical rotation stays within
\* [-maxRotation, maxRotation] and the horizontal one within the closed
\* interval [-pi, pi].
C19_TargetWithinClosedBounds ==
    /\ -maxRotation <= targetRotationX /\ targetRotationX <= maxRotation
    /\ -PI <= targetRotationY /\ targetRotationY <= PI

\* A drag has left the horizontal target at exactly -pi and the vertical
\* one clamped at maxRotation
C19_Witness ==
    /\ targetRotationY = -PI
    /\ targetRotationX = maxRotation

---------------------------------------------------------------------------
\* C20: while the smoothing loop is disabled, no pointer event or animation
\* frame changes currentRotationX/Y or delivers a rotation callback.  (The
\* ConfigPanel's rotation toggle is neither: it resets the rotation.)
C20_DisabledLoopHolds ==
    [][(/\ ~isUpdating /\ ~isUpdating'
        /\ op'.name # "handleMouseRotationChange") =>
          /\ currentRotationX' = currentRotationX
          /\ currentRotationY' = currentRotationY
          /\ callbacks' = callbacks]_vars

\* An animation frame has run update() while the loop is disabled and the
\* target is away from the held rotation
C20_Witness ==
    /\ ~isUpdating
    /\ op.name = "InputHandler.update"
    /\ targetRotationY # currentRotationY
    /\ targetRotationX # currentRotationX

---------------------------------------------------------------------------
\* C21 as stated: whatever number setStarCount or setSpeed is called with,
\* NaN included, afterwards speed is within [0.1, 5.0], starCount is within
\* [1, 5000] and stars.length = starCount, and an input that is not a
\* number leaves the prior count, stars and speed as they were.
C21_Claim ==
    [][op'.name \in {"setStarCount", "setSpeed"} =>
          /\ ~starFieldSpeed'.nan
          /\ starFieldSpeed'.val \in minSpeed..maxSpeed
          /\ ~starCountIsNaN'
          /\ starCount' \in MinStarCountArg..MaxStarCount
          /\ Len(stars') = starCount'
          /\ op'.arg.nan =>
                UNCHANGED <<starCount, starCountIsNaN, stars,
                            starFieldSpeed>>]_vars

---------------------------------------------------------------------------
\* C23 as stated: when StarFieldApp.initialize() completes without error,
\* the application is started: isInitialized and isRunning are true and the
\* StarField's animation loop is running.
C23_Claim ==
    [][(op'.name = "initialize" /\ ~errorShown') =>
          /\ isInitialized'
          /\ appIsRunning'
          /\ isRunning']_vars

---------------------------------------------------------------------------
\* C26: validateStarCount(n) is clamp(floor(n), 100, 5000) for a number n
\* and the configured count for NaN; validateSpeed(s) is s rounded to one
\* decimal and clamped to [0.1, 5.0] for a number s and the configured
\* speed for NaN; the panel stores what they return, so config.starCount
\* stays within [100, 5000] and config.speed within [0.1, 5.0].
C26_PanelClamps ==
    [][/\ op'.name = "handleStarCountChange" =>
             configStarCount' =
                IF op'.arg.nan THEN configStarCount
                ELSE IF op'.arg.val < 10000 THEN 100
                ELSE IF op'.arg.val >= 500100 THEN 5000
                ELSE op'.arg.val \div 100
       /\ op'.name = "handleSpeedChange" =>
             configSpeed' =
                IF op'.arg.nan THEN configSpeed
                ELSE IF op'.arg.val < 15 THEN 10
                ELSE IF op'.arg.val >= 495 THEN 500
                ELSE ((op'.arg.val + 5) \div 10) * 10
       /\ configStarCount' \in 100..5000
       /\ configSpeed' \in 10..500]_vars

\* The panel has clamped a count below 100 up to 100, after a speed of 0.25
\* was rounded to 0.3
C26_Witness ==
    /\ op.name = "handleStarCountChange"
    /\ ~op.arg.nan
    /\ op.arg.val < 10000
    /\ configStarCount = 100
    /\ configSpeed = 30

---------------------------------------------------------------------------
\* C27 as stated: on a mobile device initialize() applies the mobile
\* optimisations without raising: the monitor's low-performance threshold
\* becomes 20, the event listeners are set up, isInitialized becomes true
\* and no error notice is shown.
C27_Claim ==
    [][(op'.name = "initialize" /\ isMobile') =>
          /\ lowFpsThreshold' = 20
          /\ onLowPerformance' = "StarFieldApp"
          /\ isInitialized'
          /\ ~errorShown']_vars

---------------------------------------------------------------------------
\* C22 as stated: after any sequence of animation ticks StarField.getFPS()
\* equals the PerformanceMonitor's current FPS reading, the number of
\* frames counted in the most recent elapsed second.
C22_Claim == getFPS = fps

---------------------------------------------------------------------------
\* C24 as stated: of two consecutive ticks of StarField.update made with
\* skipFrames = 1 exactly one is skipped; a skipped tick changes no field
\* of any star, and an advancing tick updates every star exactly once.
C24_Original ==
    [][(now' # now /\ tick'.skipFrames = 1) =>
          /\ tick.skipFrames = 1 => tick'.skipped # tick.skipped
          /\ tick'.skipped => sceneStars' = sceneStars
          /\ ~tick'.skipped =>
                \A i \in DOMAIN sceneStars :
                   \E xy \in ResetXYs, rsp \in StarSpeeds :
                      LET held == IF tick'.reset
                                  THEN Star_reset(sceneStars[i], xy[1], xy[2], rsp)
                                  ELSE sceneStars[i]
                      IN sceneStars'[i] =
                            Star_update(held, 10, tick'.dt, xy[1], xy[2], rsp)]_vars

\* C24, amended: of two consecutive ticks of StarField.update made with
\* skipFrames = 1 exactly one is skipped; a skipped tick on which the
\* memory-pressure check resets no star changes no field of any star, and
\* an advancing tick updates every star exactly once.
C24_SkipsEveryOtherTick ==
    [][(now' # now /\ tick'.skipFrames = 1) =>
          /\ tick.skipFrames = 1 => tick'.skipped # tick.skipped
          /\ (tick'.skipped /\ ~tick'.reset) => sceneStars' = sceneStars
          /\ ~tick'.skipped =>
                \A i \in DOMAIN sceneStars :
                   \E xy \in ResetXYs, rsp \in StarSpeeds :
                      LET held == IF tick'.reset
                                  THEN Star_reset(sceneStars[i], xy[1], xy[2], rsp)
                                  ELSE sceneStars[i]
                      IN sceneStars'[i] =
                            Star_update(held, 10, tick'.dt, xy[1], xy[2], rsp)]_vars

\* A tick made with skipFrames = 1 has advanced the stars right after a
\* skipped one (frameSkipCounter is back at 0), with the first star moved
\* from where it started
C24_Witness ==
    /\ tick.skipFrames = 1
    /\ ~tick.skipped
    /\ frameSkipCounter = 0
    /\ skipFrames = 1
    /\ now >= 2100
    /\ sceneStars[1].z < 490

---------------------------------------------------------------------------
\* C25 as stated: with automatic optimisation disabled, no low-performance
\* or good-performance notification of the monitor changes starCount, the
\* renderer's glow or trails setting, or skipFrames, whether or not the
\* application has installed its listeners.
C25_Claim ==
    [][(op'.name \in {"low", "good"} /\ ~autoOptimize) =>
          UNCHANGED <<starCount, enableGlow, enableTrails, skipFrames>>]_vars

---------------------------------------------------------------------------
\* C30 as stated: once StarFieldApp has set up its listeners, a
\* low-performance notification still runs StarField.handleLowPerformance:
\* within 2000 ms of the last optimisation it changes nothing, and otherwise
\* an FPS below 20 leaves glow and trails disabled and skipFrames = 1.
C30_Claim ==
    [][(/\ onLowPerformance = "StarFieldApp"
        /\ op'.name = "low"
        /\ autoOptimize) =>
          IF now' - lastOptimization < 2000
          THEN UNCHANGED <<starCount, enableGlow, enableTrails, skipFrames>>
          ELSE /\ lastOptimization' = now'
               /\ op'.arg < 20 =>
                     (~enableGlow' /\ ~enableTrails' /\ skipFrames' = 1)]_vars

---------------------------------------------------------------------------
\* C28 as stated: once mouse rotation has been disabled through the
\* ConfigPanel, the camera's rotationX and rotationY are both 0 and remain
\* 0 until rotation is enabled again (by the panel or by a caller that
\* restarts the InputHandler's update loop).
C28_Claim == (~mouseRotation /\ ~isUpdating) => cameraRotation = <<0, 0>>

---------------------------------------------------------------------------
\* The stars of the batches bs, in order
RECURSIVE FlattenBatches(_)
FlattenBatches(bs) ==
    IF bs = <<>> THEN <<>> ELSE bs[1].stars \o FlattenBatches(Tail(bs))

\* C29: the batches groupStarsForBatching returns, concatenated in order,
\* are the input sequence; every batch holds at least one and at most
\* maxBatchSize stars, and every star of a batch has the brightness-by-size
\* bucket that is the batch's type.
C29_BatchesPartitionInput ==
    [][op'.name = "renderStarsBatched" =>
          /\ FlattenBatches(batches') = batchStars'
          /\ \A k \in DOMAIN batches' :
                /\ Len(batches'[k].stars) >= 1
                /\ Len(batches'[k].stars) <= maxBatchSize'
                /\ \A i \in DOMAIN batches'[k].stars :
                      getStarBatchType(batches'[k].stars[i]) =
                         batches'[k].type]_vars

\* A run of 7 stars of one bucket followed by 3 of another has been cut
\* into batches of at most 3: two full ones and a rest of one, then a
\* full one
C29_Witness ==
    /\ maxBatchSize = 3
    /\ Len(batchStars) = 10
    /\ Len(batches) = 4
    /\ Len(batches[3].stars) = 1
    /\ batches[3].type # batches[4].type

\* C34: a good-performance notification that directly follows the user's
\* setStarCount(n) does not raise starCount above the count that call set
C34_Claim ==
    [][(op.name = "setStarCount" /\ op'.name = "good")
          => starCount' <= starCount]_vars

\* C35: while the configuration panel's trail setting is off, trails are
\* off, whatever low- and good-performance notifications have been delivered
C35_Claim == ~configTrailEffect => ~enableTrails

\* C36: after ConfigPanel.handleStarCountChange(n) with a number n the
\* StarField's star count is clamp(floor(n), 100, 5000)
C36_Claim ==
    [][(op'.name = "handleStarCountChange" /\ ~op'.arg.nan) =>
          /\ ~starCountIsNaN'
          /\ starCount' = IF op'.arg.val < 10000 THEN 100
                          ELSE IF op'.arg.val >= 500100 THEN 5000
                          ELSE op'.arg.val \div 100]_vars

\* C37: whenever a colour transition is active, its toScheme is the
\* renderer's current config.colorScheme
C37_Claim == isTransitioning => toScheme = colorScheme

\* C38: while the InputHandler's smoothing loop is stopped, no mouse or
\* touch event changes targetRotationX or targetRotationY
C38_Claim ==
    [][(~isUpdating /\ op'.name \in PointerEvents) =>
          UNCHANGED <<targetRotationX, targetRotationY>>]_vars

\* C39: a mouse or touch event changes targetRotationX or targetRotationY
\* only if it is a mouse move while the button is held down, or a touch move
\* with exactly one touch while a single-touch drag is active and no
\* multi-touch is in progress
C39_TargetTurnsOnlyInDrag ==
    [][(/\ op'.name \in PointerEvents
        /\ <<targetRotationX, targetRotationY>>' #
              <<targetRotationX, targetRotationY>>) =>
          \/ op'.name = "mousemove" /\ isMouseDown
          \/ /\ op'.name = "touchmove"
             /\ op'.arg = 1
             /\ isTouchActive
             /\ ~multiTouchActive]_vars

\* A one-finger touch move has turned the target after a two-finger
\* gesture ended with one finger still down
C39_Witness ==
    /\ op.name = "touchmove"
    /\ op.arg = 1
    /\ isTouchActive
    /\ ~isMouseDown
    /\ targetRotationY # 0

\* C40: getVisibleStars emits the same stars with frustum culling enabled
\* as with frustum culling disabled
C40_Claim ==
    \A i \in DOMAIN sceneStars :
       Emitted(sceneStars[i]) = EmittedUnculled(sceneStars[i])

\* C31: while the application is running, the callbacks of one animation
\* frame call the shared PerformanceMonitor's update at most once
C31_Claim == appIsRunning => monitorUpdates <= 1

\* C32: for a StarField started on its own and ticked every 25 ms while it
\* runs, whatever time passed before start() and while it was stopped, every
\* reading in fpsHistory is at least 40 and no low-performance notification
\* is delivered
C32_Claim ==
    ~isInitialized =>
       /\ \A i \in DOMAIN fpsHistory : fpsHistory[i] >= 40
       /\ op.name # "low"

\* C33: after any start() and stop() calls and animation frames, a running
\* StarField has at most one animate callback waiting and a running
\* StarFieldApp at most one update callback waiting
C33_Claim ==
    /\ isRunning => CountOf(rafQueue \o rafDue, "animate") <= 1
    /\ appIsRunning => CountOf(rafQueue \o rafDue, "appUpdate") <= 1

====
